---- MODULE Spec2Model ----
(***************************************************************************)
(* Model of the schema / relationship inference core of analytics_erp:     *)
(*   - RelationshipMiner      (src/src/relationship_miner.py)             *)
(*   - ERPSchemaAnalyzer      (src/src/schema_analyzer.py)                *)
(*   - ERPDataLoader          (src/src/data_loader.py)                    *)
(*   - ERDiagramGenerator     (src/src/diagram_generator.py)              *)
(*   - DataHelper             (src/src/data_loader_helper.py)             *)
(*                                                                         *)
(* Strings that the code inspects character by character (table names,    *)
(* column names, file contents) are sequences of one-character strings.   *)
(* Confidences are integers in hundredths (0.8 is 80, 0.15 is 15).        *)
(* Python dicts are sequences of entries in insertion order.              *)
(***************************************************************************)
EXTENDS Integers, Sequences, FiniteSets, TLC

VARIABLES
    \* RelationshipMiner
    tables_info,          \* self.tables_info: ordered dict, name -> info
    relationships_found,  \* self.relationships_found
    graph,                \* self.graph (edges of the nx.DiGraph)
    results,              \* history: value returned by each mine_relationships call
    diagram,              \* the ERDiagramGenerator: relationships, tables_info, graph
    last_join,            \* history: the last suggest_joins call and what it returned
    \* scanning (ERPDataLoader.scan_data_directory, ERPSchemaAnalyzer)
    directory,            \* the *.csv files of the data directory, in glob order
    file_info,            \* loader: _metadata_cache['file_info'] (<<>> before a scan)
    scan_stats,           \* loader: stats['total_files'], stats['total_records']
    analyzer_tables,      \* analyzer: self.tables_info
    last_scan,            \* history: what the last scan call did
    scans,                \* history: number of scan calls made
    \* ERPDataLoader.load_table
    parquet,              \* cache_dir: dict table -> content of <table>.parquet
    schema_files,         \* metadata_dir: tables that have a <table>_schema.json
    heap,                 \* DataFrame objects: reference -> content
    data_cache,           \* self._data_cache: cache key -> reference
    load_stats,           \* stats['cache_hits'], ['cache_misses'], ['loaded_tables']
    held,                 \* references to DataFrames handed to callers
    loaded,               \* history: cache key -> content stored at the miss
    last_load,            \* history: what the last load_table call did
    loads,                \* history: number of load_table calls made
    \* threads calling load_table on one loader
    pc,                   \* caller -> the place in load_table it is at
    frame,                \* caller -> the locals of its load_table call
    writers,              \* to_parquet calls in progress: [stem, caller]
    conversions,          \* history: table -> _load_and_convert_to_parquet calls
    \* calls of functions that keep no state
    sample_call,          \* history: the last _load_sample call, by row counts
    type_call             \* history: the last detect_column_semantic_type call

minerVars  == <<tables_info, relationships_found, graph, results, diagram, last_join>>
scanVars   == <<directory, file_info, scan_stats, analyzer_tables, last_scan, scans>>
loaderVars == <<parquet, schema_files, heap, data_cache, load_stats, held, loaded, last_load, loads>>
threadVars == <<pc, frame, writers, conversions>>
helperVars == <<sample_call, type_call>>
vars       == <<minerVars, scanVars, loaderVars, threadVars, helperVars>>

----------------------------------------------------------------------------
(* Generic helpers: Python built-ins used by the code.                     *)

RECURSIVE Concat(_)
\* concatenation of a sequence of sequences (nested list building loops)
Concat(ss) == IF Len(ss) = 0 THEN <<>> ELSE Head(ss) \o Concat(Tail(ss))

\* dict.get(key, default) on a record
Get(d, key, default) == IF key \in DOMAIN d THEN d[key] ELSE default

Min(a, b) == IF a <= b THEN a ELSE b
Max(a, b) == IF a >= b THEN a ELSE b

UpperAlphabet ==
    <<"A","B","C","D","E","F","G","H","I","J","K","L","M",
      "N","O","P","Q","R","S","T","U","V","W","X","Y","Z">>
LowerAlphabet ==
    <<"a","b","c","d","e","f","g","h","i","j","k","l","m",
      "n","o","p","q","r","s","t","u","v","w","x","y","z">>

\* str.lower() on one character
LowerChar(c) ==
    IF \E i \in 1..26 : UpperAlphabet[i] = c
    THEN LowerAlphabet[CHOOSE i \in 1..26 : UpperAlphabet[i] = c]
    ELSE c

\* str.lower()
Lower(s) == [i \in 1..Len(s) |-> LowerChar(s[i])]

\* Python "p in s" on strings
Contains(p, s) ==
    \E i \in 0..(Len(s) - Len(p)) : SubSeq(s, i + 1, i + Len(p)) = p

\* str.startswith
StartsWith(s, p) == Len(p) <= Len(s) /\ SubSeq(s, 1, Len(p)) = p

----------------------------------------------------------------------------
(* Words used by the detectors.                                            *)

w_cliente == <<"c", "l", "i", "e", "n", "t", "e">>
w_pedido == <<"p", "e", "d", "i", "d", "o">>
w_venda == <<"v", "e", "n", "d", "a">>
w_notafiscal == <<"n", "o", "t", "a", "f", "i", "s", "c", "a", "l">>
w_produto == <<"p", "r", "o", "d", "u", "t", "o">>
w_pedidoitem == <<"p", "e", "d", "i", "d", "o", "i", "t", "e", "m">>
w_item == <<"i", "t", "e", "m">>
w_estoque == <<"e", "s", "t", "o", "q", "u", "e">>
w_fornecedor == <<"f", "o", "r", "n", "e", "c", "e", "d", "o", "r">>
w_compra == <<"c", "o", "m", "p", "r", "a">>
w_notafiscalcompra == <<"n", "o", "t", "a", "f", "i", "s", "c", "a", "l", "c", "o", "m", "p", "r", "a">>
w_vendedor == <<"v", "e", "n", "d", "e", "d", "o", "r">>
w_funcionario == <<"f", "u", "n", "c", "i", "o", "n", "a", "r", "i", "o">>
w_folha == <<"f", "o", "l", "h", "a">>
w_contabanco == <<"c", "o", "n", "t", "a", "b", "a", "n", "c", "o">>
w_lancamento == <<"l", "a", "n", "c", "a", "m", "e", "n", "t", "o">>
w_conta == <<"c", "o", "n", "t", "a">>
w_planoconta == <<"p", "l", "a", "n", "o", "c", "o", "n", "t", "a">>
w_cidade == <<"c", "i", "d", "a", "d", "e">>
w_estado == <<"e", "s", "t", "a", "d", "o">>
w_pais == <<"p", "a", "i", "s">>
w_id == <<"i", "d">>
w_cod == <<"c", "o", "d">>
w_key == <<"k", "e", "y">>
w_ref == <<"r", "e", "f">>

(* Table and column names of the modelled datasets.                        *)
n_Cliente == <<"C", "l", "i", "e", "n", "t", "e">>
n_CLIENTE == <<"C", "L", "I", "E", "N", "T", "E">>
n_Clientes == <<"C", "l", "i", "e", "n", "t", "e", "s">>
n_Pedido == <<"P", "e", "d", "i", "d", "o">>
n_ClientePedido == <<"C", "l", "i", "e", "n", "t", "e", "P", "e", "d", "i", "d", "o">>
n_Venda == <<"V", "e", "n", "d", "a">>
n_ClienteID == <<"C", "l", "i", "e", "n", "t", "e", "I", "D">>
n_CodCliente == <<"C", "o", "d", "C", "l", "i", "e", "n", "t", "e">>
n_PedidoID == <<"P", "e", "d", "i", "d", "o", "I", "D">>
n_Nome == <<"N", "o", "m", "e">>
n_PedidoItem == n_Pedido \o <<"I", "t", "e", "m">>
n_Valor == <<"V", "a", "l", "o", "r">>

----------------------------------------------------------------------------
(* RelationshipMiner                                                       *)

\* info.get('columns', []) of a table entry
Columns(info) == Get(info, "columns", <<>>)

\* self.tables_info[name]
InfoOf(ti, name) == ti[CHOOSE i \in 1..Len(ti) : ti[i].name = name].info

\* the six name patterns built from the other table's lower-cased name
NamingPatterns(other_lower) ==
    << other_lower \o w_id,
       w_id \o other_lower,
       other_lower \o <<"_">> \o w_id,
       w_id \o <<"_">> \o other_lower,
       w_cod \o other_lower,
       other_lower \o w_cod >>

\* the naming detector without its guard
NamingNeverSkips(table_name, other_table) == FALSE

\* the guard "if other_table == table_name: continue"
NamingSkipsPair(table_name, other_table) == other_table = table_name

\* _find_relationships_by_naming
FindRelationshipsByNaming(ti) ==
    Concat([i \in 1..Len(ti) |->
      LET table_name == ti[i].name
          columns    == Columns(ti[i].info)
      IN Concat([c \in 1..Len(columns) |->
           LET column    == columns[c]
               col_lower == Lower(column)
           IN Concat([j \in 1..Len(ti) |->
                LET other_table == ti[j].name
                    patterns    == NamingPatterns(Lower(other_table))
                IN IF NamingSkipsPair(table_name, other_table)
                   THEN <<>>
                   ELSE IF \E p \in 1..Len(patterns) : Contains(patterns[p], col_lower)
                   THEN << [source_table      |-> table_name,
                            source_column     |-> column,
                            target_table      |-> other_table,
                            relationship_type |-> "foreign_key_by_name",
                            evidence          |-> <<"Nome da coluna", column, other_table>>] >>
                   ELSE <<>>])])])

\* the erp_patterns dict, in source order
ErpPatterns ==
    << [t1 |-> w_cliente,     t2 |-> w_pedido,           column_pattern |-> w_cliente,     confidence |-> 90],
       [t1 |-> w_cliente,     t2 |-> w_venda,            column_pattern |-> w_cliente,     confidence |-> 90],
       [t1 |-> w_cliente,     t2 |-> w_notafiscal,       column_pattern |-> w_cliente,     confidence |-> 80],
       [t1 |-> w_produto,     t2 |-> w_pedidoitem,       column_pattern |-> w_produto,     confidence |-> 90],
       [t1 |-> w_produto,     t2 |-> w_item,             column_pattern |-> w_produto,     confidence |-> 90],
       [t1 |-> w_produto,     t2 |-> w_estoque,          column_pattern |-> w_produto,     confidence |-> 80],
       [t1 |-> w_fornecedor,  t2 |-> w_compra,           column_pattern |-> w_fornecedor,  confidence |-> 90],
       [t1 |-> w_fornecedor,  t2 |-> w_notafiscalcompra, column_pattern |-> w_fornecedor,  confidence |-> 80],
       [t1 |-> w_vendedor,    t2 |-> w_venda,            column_pattern |-> w_vendedor,    confidence |-> 80],
       [t1 |-> w_funcionario, t2 |-> w_folha,            column_pattern |-> w_funcionario, confidence |-> 90],
       [t1 |-> w_contabanco,  t2 |-> w_lancamento,       column_pattern |-> w_conta,       confidence |-> 80],
       [t1 |-> w_planoconta,  t2 |-> w_lancamento,       column_pattern |-> w_planoconta,  confidence |-> 80] >>

\* table_names_lower = {name.lower(): name for name in tables_info}: one entry
\* per lower-cased name, at the position of its first occurrence, holding the
\* last table that has that lower-cased name
TableNamesLower(ti) ==
    Concat([i \in 1..Len(ti) |->
      LET low == Lower(ti[i].name)
      IN IF \E j \in 1..(i - 1) : Lower(ti[j].name) = low
         THEN <<>>
         ELSE LET last == CHOOSE j \in i..Len(ti) :
                            /\ Lower(ti[j].name) = low
                            /\ \A k \in (j + 1)..Len(ti) : Lower(ti[k].name) # low
              IN << [name_lower |-> low, name |-> ti[last].name] >>])

\* [name for name_lower, name in table_names_lower.items() if pattern in name_lower]
MatchingTables(tnl, pattern) ==
    Concat([i \in 1..Len(tnl) |->
      IF Contains(pattern, tnl[i].name_lower) THEN <<tnl[i].name>> ELSE <<>>])

\* the guard "if table1 == table2: continue"
ErpSkipsPair(table1, table2) == table1 = table2

\* _find_relationships_by_erp_patterns
FindRelationshipsByErpPatterns(ti) ==
    LET tnl == TableNamesLower(ti)
    IN Concat([r \in 1..Len(ErpPatterns) |->
         LET rule == ErpPatterns[r]
             m1   == MatchingTables(tnl, rule.t1)
             m2   == MatchingTables(tnl, rule.t2)
         IN Concat([a \in 1..Len(m1) |->
              Concat([b \in 1..Len(m2) |->
                LET table1   == m1[a]
                    table2   == m2[b]
                    columns2 == Columns(InfoOf(ti, table2))
                IN IF ErpSkipsPair(table1, table2)
                   THEN <<>>
                   ELSE Concat([c \in 1..Len(columns2) |->
                          IF Contains(Lower(rule.column_pattern), Lower(columns2[c]))
                          THEN << [source_table        |-> table2,
                                   target_table        |-> table1,
                                   relationship_column |-> columns2[c],
                                   relationship_type   |-> "erp_pattern",
                                   confidence          |-> rule.confidence,
                                   evidence            |-> <<"Padrao ERP", table2, columns2[c], table1>>] >>
                          ELSE <<>>])])])])

\* a dedup key that also holds the column
DedupKeyWithColumn(rel) ==
    <<Get(rel, "source_table", "None"), Get(rel, "target_table", "None"),
      IF "relationship_column" \in DOMAIN rel THEN rel.relationship_column
      ELSE Get(rel, "source_column", "None")>>

\* the dedup key of _deduplicate_relationships
DedupKey(rel) == <<Get(rel, "source_table", "None"), Get(rel, "target_table", "None")>>

\* a deduplication that keeps the last relationship of every key
DeduplicateKeepsLast(rels) ==
    Concat([i \in 1..Len(rels) |->
      IF \E j \in (i + 1)..Len(rels) : DedupKey(rels[j]) = DedupKey(rels[i])
      THEN <<>>
      ELSE <<rels[i]>>])

\* _deduplicate_relationships: keep the first relationship of every key
DeduplicateRelationships(rels) ==
    Concat([i \in 1..Len(rels) |->
      IF \E j \in 1..(i - 1) : DedupKey(rels[j]) = DedupKey(rels[i])
      THEN <<>>
      ELSE <<rels[i]>>])

MasterKeywords ==
    <<w_cliente, w_produto, w_fornecedor, w_funcionario,
      w_vendedor, w_cidade, w_estado, w_pais>>

\* score of one table in _identify_key_tables
KeyTableScore(name, info) ==
    (IF \E k \in 1..Len(MasterKeywords) : Contains(MasterKeywords[k], Lower(name))
     THEN 3 ELSE 0)
    + (IF 100 < Get(info, "total_rows", 0) /\ Get(info, "total_rows", 0) < 1000000
       THEN 2 ELSE 0)

\* _identify_key_tables: the entries with score > 0
IdentifyKeyTables(ti) ==
    Concat([i \in 1..Len(ti) |->
      LET score == KeyTableScore(ti[i].name, ti[i].info)
      IN IF score > 0
         THEN << [name |-> ti[i].name, score |-> score,
                  type |-> IF score >= 3 THEN "master" ELSE "transaction"] >>
         ELSE <<>>])

\* evidence_weights.get(rel_type, 0.4)
EvidenceWeight(rel_type) ==
    CASE rel_type = "foreign_key_by_name" -> 80
      [] rel_type = "erp_pattern"         -> 70
      [] rel_type = "data_overlap"        -> 60
      [] rel_type = "implicit"            -> 40
      [] OTHER                            -> 40

ColumnBonusPatterns == <<w_id, w_cod, w_key, w_ref>>

\* a variant that starts from the confidence the relationship already carries
\* and returns the sum without the final min(..., 1.0)
CalculateConfidenceAccumulating(ti, relationship) ==
    LET column == Lower(Get(relationship, "relationship_column", <<>>))
        target == Get(relationship, "target_table", <<>>)
        keys   == IdentifyKeyTables(ti)
    IN Get(relationship, "confidence", 0)
       + EvidenceWeight(Get(relationship, "relationship_type", "implicit"))
       + (IF \E p \in 1..Len(ColumnBonusPatterns) : Contains(ColumnBonusPatterns[p], column)
          THEN 15 ELSE 0)
       + (IF \E k \in 1..Len(keys) : keys[k].name = target /\ keys[k].type = "master"
          THEN 10 ELSE 0)

\* _calculate_confidence
CalculateConfidence(ti, relationship) ==
    LET column == Lower(Get(relationship, "relationship_column", <<>>))
        target == Get(relationship, "target_table", <<>>)
        keys   == IdentifyKeyTables(ti)
        sum    == EvidenceWeight(Get(relationship, "relationship_type", "implicit"))
                  + (IF \E p \in 1..Len(ColumnBonusPatterns) :
                          Contains(ColumnBonusPatterns[p], column)
                     THEN 15 ELSE 0)
                  + (IF \E k \in 1..Len(keys) :
                          keys[k].name = target /\ keys[k].type = "master"
                     THEN 10 ELSE 0)
    IN Min(sum, 100)

\* rel['confidence'] = value
WithConfidence(rel, value) ==
    [k \in (DOMAIN rel) \cup {"confidence"} |->
       IF k = "confidence" THEN value ELSE rel[k]]

\* the list returned by mine_relationships
MineRelationshipsResult(ti) ==
    LET naming_rels  == FindRelationshipsByNaming(ti)
        pattern_rels == FindRelationshipsByErpPatterns(ti)
        data_rels    == <<>>
        unique_rels  == DeduplicateRelationships(naming_rels \o pattern_rels \o data_rels)
    IN [i \in 1..Len(unique_rels) |->
          WithConfidence(unique_rels[i], CalculateConfidence(ti, unique_rels[i]))]

\* line 43, "self.relationships_found = unique_rels", with the list extended
\* in place of replaced
RelationshipsFoundExtended(old, unique_rels) == old \o unique_rels

\* line 43: self.relationships_found = unique_rels
RelationshipsFoundAfterMine(old, unique_rels) == unique_rels

\* the edges build_relationship_graph adds: one edge per (source, target),
\* a later add_edge on the same pair overwriting the attributes
GraphEdges(rels) ==
    { [source |-> Get(rels[i], "source_table", <<>>),
       target |-> Get(rels[i], "target_table", <<>>),
       weight |-> Get(rels[i], "confidence", 0),
       column |-> Get(rels[i], "relationship_column", <<>>),
       type   |-> Get(rels[i], "relationship_type", "unknown")] :
      i \in { k \in 1..Len(rels) :
                /\ Get(rels[k], "confidence", 0) > 30
                /\ \A m \in (k + 1)..Len(rels) :
                     \/ Get(rels[m], "confidence", 0) <= 30
                     \/ Get(rels[m], "source_table", <<>>) # Get(rels[k], "source_table", <<>>)
                     \/ Get(rels[m], "target_table", <<>>) # Get(rels[k], "target_table", <<>>) } }

\* the (source, target) pairs of the edges in the order add_edge first adds
\* them, which is the order the DiGraph lists the successors of a node in
EdgeOrder(rels) ==
    Concat([k \in 1..Len(rels) |->
      IF /\ Get(rels[k], "confidence", 0) > 30
         /\ \A m \in 1..(k - 1) :
              \/ Get(rels[m], "confidence", 0) <= 30
              \/ Get(rels[m], "source_table", <<>>) # Get(rels[k], "source_table", <<>>)
              \/ Get(rels[m], "target_table", <<>>) # Get(rels[k], "target_table", <<>>)
      THEN << <<Get(rels[k], "source_table", <<>>), Get(rels[k], "target_table", <<>>)>> >>
      ELSE <<>>])

EmptyGraph == [nodes |-> {}, edges |-> {}, order |-> <<>>]

\* build_relationship_graph: a fresh DiGraph holding the edges above
BuildGraph(rels) ==
    LET edges == GraphEdges(rels)
    IN [nodes |-> {e.source : e \in edges} \cup {e.target : e \in edges},
        edges |-> edges,
        order |-> EdgeOrder(rels)]

\* lines 302-309 of suggest_joins: a direct suggestion per relationship
\* between the two tables, in either direction
DirectSuggestions(rels, table1, table2) ==
    Concat([i \in 1..Len(rels) |->
      LET source == Get(rels[i], "source_table", <<>>)
          target == Get(rels[i], "target_table", <<>>)
      IN IF (source = table1 /\ target = table2) \/ (source = table2 /\ target = table1)
         THEN << [type       |-> "direct",
                  confidence |-> Get(rels[i], "confidence", 0),
                  column     |-> Get(rels[i], "relationship_column", <<>>),
                  direction  |-> <<source, target>>] >>
         ELSE <<>>])

\* nx.all_simple_paths(self.graph, table1, table2, cutoff=2), the paths of
\* three nodes: table1 -> x -> table2 along the direction of the edges, x in
\* the order of the successors of table1.  A table1 that is not a node of
\* the graph raises NodeNotFound; a table2 that is not a node has no path
SimplePathsOfThree(g, table1, table2) ==
    IF table1 \notin g.nodes
    THEN [raised |-> TRUE, paths |-> <<>>]
    ELSE [raised |-> FALSE,
          paths  |-> Concat([k \in 1..Len(g.order) |->
                       LET x == g.order[k][2]
                       IN IF /\ g.order[k][1] = table1
                             /\ x # table1
                             /\ x # table2
                             /\ table1 # table2
                             /\ \E m \in 1..Len(g.order) : g.order[m] = <<x, table2>>
                          THEN << <<table1, x, table2>> >>
                          ELSE <<>>])]

\* confidence given to an indirect suggestion (line 321)
IndirectConfidence == 50

\* lines 312-325 of suggest_joins: the indirect suggestions; the bare except
\* turns an exception of the path search into no suggestion
IndirectSuggestions(g, table1, table2) ==
    LET found == SimplePathsOfThree(g, table1, table2)
    IN IF found.raised THEN <<>>
       ELSE [k \in 1..Len(found.paths) |->
               [type       |-> "indirect",
                path       |-> found.paths[k],
                confidence |-> IndirectConfidence,
                suggestion |-> <<table1, found.paths[k][2], table2>>]]

\* the suggestions kept in the order they were found
Unsorted(suggestions) == suggestions

RECURSIVE InsertByConfidence(_, _)
\* the place of x in a list sorted by descending confidence, after the
\* entries of the same confidence (sorted is stable)
InsertByConfidence(sorted, x) ==
    IF Len(sorted) = 0 THEN <<x>>
    ELSE IF Head(sorted).confidence >= x.confidence
         THEN <<Head(sorted)>> \o InsertByConfidence(Tail(sorted), x)
         ELSE <<x>> \o sorted

RECURSIVE SortedByConfidence(_)
\* sorted(suggestions, key=confidence, reverse=True)
SortedByConfidence(suggestions) ==
    IF Len(suggestions) = 0 THEN <<>>
    ELSE InsertByConfidence(
            SortedByConfidence(SubSeq(suggestions, 1, Len(suggestions) - 1)),
            suggestions[Len(suggestions)])

\* suggest_joins(table1, table2)
SuggestJoinsResult(rels, g, table1, table2) ==
    LET direct == DirectSuggestions(rels, table1, table2)
    IN SortedByConfidence(IF Len(direct) > 0 THEN direct
                          ELSE IndirectSuggestions(g, table1, table2))

\* no ERDiagramGenerator has been made
NoDiagram == [built |-> FALSE]

\* lines 23-25 of ERDiagramGenerator.build_graph, as in the miner's graph
\* builder: only the tables that are an end of an edge are nodes
DiagramNodesFromEdges(ti, edges) ==
    {[name |-> e.source] : e \in edges} \cup {[name |-> e.target] : e \in edges}

\* lines 23-25 of ERDiagramGenerator.build_graph: one node per table of
\* tables_info, with its size; add_edge (line 30) adds the ends of an edge
\* that are not nodes yet, without a size
DiagramNodes(ti, edges) ==
    LET tables == { [name |-> ti[i].name, size |-> Get(ti[i].info, "total_rows", 0)] :
                      i \in 1..Len(ti) }
        named  == { n.name : n \in tables }
    IN tables
       \cup { [name |-> e.source] : e \in {x \in edges : x.source \notin named} }
       \cup { [name |-> e.target] : e \in {x \in edges : x.target \notin named} }

\* lines 28-36 of ERDiagramGenerator.build_graph: an edge per relationship at
\* or above min_confidence; a later relationship between the same two tables
\* replaces the attributes of the edge
DiagramEdges(rels, min_confidence) ==
    { [source     |-> Get(rels[i], "source_table", <<>>),
       target     |-> Get(rels[i], "target_table", <<>>),
       label      |-> Get(rels[i], "relationship_column", <<>>),
       confidence |-> Get(rels[i], "confidence", 0),
       type       |-> Get(rels[i], "relationship_type", "")] :
      i \in { k \in 1..Len(rels) :
                /\ Get(rels[k], "confidence", 0) >= min_confidence
                /\ \A m \in (k + 1)..Len(rels) :
                     \/ Get(rels[m], "confidence", 0) < min_confidence
                     \/ Get(rels[m], "source_table", <<>>) # Get(rels[k], "source_table", <<>>)
                     \/ Get(rels[m], "target_table", <<>>) # Get(rels[k], "target_table", <<>>) } }

\* ERDiagramGenerator(relationships, tables_info).build_graph(min_confidence)
DiagramBuildGraph(rels, ti, min_confidence) ==
    LET edges == DiagramEdges(rels, min_confidence)
    IN [built |-> TRUE, relationships |-> rels, tables_info |-> ti,
        min_confidence |-> min_confidence,
        graph |-> [nodes |-> DiagramNodes(ti, edges), edges |-> edges]]

----------------------------------------------------------------------------
(* The table profiles given to the miner.                                  *)

MaxProfiles == 3     \* tables in a profile set
MaxCalls    == 2     \* mine_relationships calls in a behaviour

OkInfo(columns, total_rows) ==
    [file_path |-> "csv", total_rows |-> total_rows, columns |-> columns]

ErrorInfo == [file_path |-> "csv", error |-> "read error"]

TablePool ==
    { [name |-> n_Cliente,       info |-> OkInfo(<<n_ClienteID, n_Nome>>, 500)],
      [name |-> n_Cliente,       info |-> ErrorInfo],
      [name |-> n_CLIENTE,       info |-> OkInfo(<<n_Nome>>, 500)],
      [name |-> n_Clientes,      info |-> OkInfo(<<n_Nome>>, 50)],
      [name |-> n_Pedido,        info |-> OkInfo(<<n_PedidoID, n_ClienteID, n_Valor>>, 5000)],
      [name |-> n_Venda,         info |-> OkInfo(<<n_ClienteID, n_CodCliente>>, 50)],
      [name |-> n_ClientePedido, info |-> OkInfo(<<n_ClienteID, n_PedidoID>>, 500)] }

\* ordered dicts of at most MaxProfiles tables with distinct names
ProfileSets ==
    { ti \in UNION { [1..n -> TablePool] : n \in 0..MaxProfiles } :
        \A i, j \in 1..Len(ti) : i # j => ti[i].name # ti[j].name }

\* the table names of a profile set
TableNames(ti) == { ti[i].name : i \in 1..Len(ti) }

IsError(ti, name) ==
    \E i \in 1..Len(ti) : ti[i].name = name /\ "error" \in DOMAIN ti[i].info

----------------------------------------------------------------------------
(* Initial values of the three components.                                 *)

\* the threads that call load_table on one loader: the thread of the caller
\* and a second thread, such as the one preload_frequent_tables starts
Callers == {"foreground", "background"}

\* a caller that is not inside load_table has no locals
NoFrame == [cache_key |-> <<>>]

MinerInit ==
    /\ relationships_found = <<>>
    /\ graph = EmptyGraph
    /\ results = <<>>
    /\ diagram = NoDiagram
    /\ last_join = [called |-> FALSE]

ScanInit ==
    /\ file_info = <<>>
    /\ scan_stats = [total_files |-> 0, total_records |-> 0]
    /\ analyzer_tables = <<>>
    /\ last_scan = [kind |-> "none"]
    /\ scans = 0

LoaderInit ==
    /\ parquet = <<>>
    /\ schema_files = {}
    /\ heap = <<>>
    /\ data_cache = <<>>
    /\ load_stats = [cache_hits |-> 0, cache_misses |-> 0, loaded_tables |-> <<>>]
    /\ held = {}
    /\ loaded = <<>>
    /\ last_load = [kind |-> "none"]
    /\ loads = 0
    /\ pc = [c \in Callers |-> "idle"]
    /\ frame = [c \in Callers |-> NoFrame]
    /\ writers = {}
    /\ conversions = <<>>

HelperInit ==
    /\ sample_call = [called |-> FALSE]
    /\ type_call = [called |-> FALSE]

----------------------------------------------------------------------------
(* RelationshipMiner: operations.                                          *)

\* RelationshipMiner(tables_info): a fresh miner over the same profiles
NewMiner ==
    /\ relationships_found' = <<>>
    /\ graph' = EmptyGraph
    /\ UNCHANGED <<tables_info, results, diagram, last_join, scanVars, loaderVars, threadVars, helperVars>>

\* mine_relationships()
MineRelationships ==
    /\ Len(results) < MaxCalls
    /\ LET unique_rels == MineRelationshipsResult(tables_info)
           found       == RelationshipsFoundAfterMine(relationships_found, unique_rels)
       IN /\ relationships_found' = found
          /\ results' = Append(results, found)
    /\ UNCHANGED <<tables_info, graph, diagram, last_join, scanVars, loaderVars, threadVars, helperVars>>

\* build_relationship_graph()
BuildRelationshipGraph ==
    /\ graph' = BuildGraph(relationships_found)
    /\ UNCHANGED <<tables_info, relationships_found, results, diagram, last_join, scanVars,
                   loaderVars, threadVars, helperVars>>

\* default of min_confidence (line 18)
MinConfidenceDefault == 50

\* the floors given to build_graph
MinConfidenceArgs == {MinConfidenceDefault, 90, 95}

\* a diagram generator is made from the relationships the miner holds and
\* its table profiles, and builds its graph
BuildDiagram(min_confidence) ==
    /\ diagram' = DiagramBuildGraph(relationships_found, tables_info, min_confidence)
    /\ UNCHANGED <<tables_info, relationships_found, graph, results, last_join,
                   scanVars, loaderVars, threadVars, helperVars>>

\* suggest_joins(table1, table2)
SuggestJoins(table1, table2) ==
    /\ last_join' = [called |-> TRUE, table1 |-> table1, table2 |-> table2,
                     relationships |-> relationships_found,
                     graph |-> graph,
                     suggestions |-> SuggestJoinsResult(relationships_found, graph,
                                                        table1, table2)]
    /\ UNCHANGED <<tables_info, relationships_found, graph, results, diagram,
                   scanVars, loaderVars, threadVars, helperVars>>

InitMiner ==
    /\ tables_info \in ProfileSets
    /\ MinerInit
    /\ directory = <<>>
    /\ ScanInit
    /\ LoaderInit
    /\ HelperInit

NextMiner == NewMiner \/ MineRelationships \/ BuildRelationshipGraph

SpecMiner == InitMiner /\ [][NextMiner]_vars

(* Mining followed by the graph operations: build_relationship_graph,      *)
(* suggest_joins and the graph of the diagram generator.                   *)

n_ItemPedido == <<"I", "t", "e", "m">> \o n_Pedido
n_ItemID     == <<"I", "t", "e", "m", "I", "D">>
n_Entrega    == <<"E", "n", "t", "r", "e", "g", "a">>
n_Rota       == <<"R", "o", "t", "a">>
n_RotaID     == <<"R", "o", "t", "a", "I", "D">>

\* ItemPedido refers to Pedido and Pedido refers to Cliente
JoinScenarioProfiles ==
    << [name |-> n_ItemPedido, info |-> OkInfo(<<n_ItemID, n_PedidoID>>, 5000)],
       [name |-> n_Pedido,     info |-> OkInfo(<<n_PedidoID, n_ClienteID, n_Valor>>, 5000)],
       [name |-> n_Cliente,    info |-> OkInfo(<<n_ClienteID, n_Nome>>, 500)] >>

\* the profile sets of at most two tables, the scenario above, two small
\* tables that share an ID column (with and without a relationship by name),
\* and sets of three and four tables with relationships of different
\* confidences
GraphProfileSets ==
    { ti \in ProfileSets : Len(ti) <= 2 }
    \cup { JoinScenarioProfiles,
           << [name |-> n_Entrega,  info |-> OkInfo(<<n_RotaID, n_Valor>>, 50)],
              [name |-> n_Rota,     info |-> OkInfo(<<n_RotaID, n_Nome>>, 50)] >>,
           << [name |-> n_Entrega,  info |-> OkInfo(<<n_ClienteID, n_Valor>>, 50)],
              [name |-> n_Venda,    info |-> OkInfo(<<n_ClienteID, n_CodCliente>>, 50)] >>,
           << [name |-> n_Venda,    info |-> OkInfo(<<n_ClienteID, n_CodCliente>>, 50)],
              [name |-> n_Clientes, info |-> OkInfo(<<n_Nome>>, 50)],
              [name |-> n_Cliente,  info |-> OkInfo(<<n_ClienteID, n_Nome>>, 500)],
              [name |-> n_CLIENTE,  info |-> OkInfo(<<n_Nome>>, 500)] >>,
           << [name |-> n_Cliente,  info |-> OkInfo(<<n_ClienteID, n_PedidoID>>, 500)],
              [name |-> n_Pedido,   info |-> OkInfo(<<n_PedidoID, n_ClienteID, n_Valor>>, 5000)],
              [name |-> n_Venda,    info |-> OkInfo(<<n_ClienteID, n_PedidoID>>, 50)] >> }

InitGraph ==
    /\ tables_info \in GraphProfileSets
    /\ MinerInit
    /\ directory = <<>>
    /\ ScanInit
    /\ LoaderInit
    /\ HelperInit

NextGraph ==
    \/ MineRelationships
    \/ BuildRelationshipGraph
    \/ \E min_confidence \in MinConfidenceArgs : BuildDiagram(min_confidence)
    \/ \E table1 \in TableNames(tables_info), table2 \in TableNames(tables_info) :
         SuggestJoins(table1, table2)

SpecGraph == InitGraph /\ [][NextGraph]_vars

----------------------------------------------------------------------------
(* Claims about the miner.                                                 *)

\* every relationship any mine_relationships call has returned
Returned == UNION { { results[r][i] : i \in 1..Len(results[r]) } : r \in 1..Len(results) }

\* the candidates the detectors propose, before deduplication
Candidates ==
    FindRelationshipsByNaming(tables_info) \o FindRelationshipsByErpPatterns(tables_info)

\* the ordered pair of tables of a relationship
PairOf(rel) == <<rel.source_table, rel.target_table>>

\* the column a candidate goes through, whichever key its detector stores it under
CandidateColumn(rel) ==
    IF "relationship_column" \in DOMAIN rel THEN rel.relationship_column
    ELSE Get(rel, "source_column", <<>>)

\* C1: every relationship returned by mine_relationships has a confidence
\* between 0.0 and 1.0 (0 and 100 hundredths)
C1_ConfidenceInUnitInterval ==
    \A rel \in Returned : 0 <= rel.confidence /\ rel.confidence <= 100

\* C1 witness: a returned relationship that received the type weight, the
\* column bonus and the master-table bonus (0.7 + 0.15 + 0.1)
C1_Witness == \E rel \in Returned : rel.confidence = 95

\* C2: no returned relationship has source_table = target_table
C2_NoSelfRelationship ==
    \A rel \in Returned : rel.source_table # rel.target_table

\* C2 witness: a relationship was returned between two tables whose names
\* differ only in letter case
C2_Witness ==
    \E rel \in Returned : Lower(rel.source_table) = Lower(rel.target_table)

\* C5 (as claimed): no returned relationship has an error-state table as
\* source_table or as target_table
C5_ErrorTablesSkipped ==
    \A rel \in Returned :
        /\ ~IsError(tables_info, rel.source_table)
        /\ ~IsError(tables_info, rel.target_table)

\* C6 (as claimed): deduplication keys on (source, target, column), so every
\* candidate's (source, target, column) is present in the output
C6_ColumnInDedupKey ==
    LET cands == Candidates
    IN \A r \in 1..Len(results) :
         LET res == results[r]
         IN \A c \in 1..Len(cands) :
              \E i \in 1..Len(res) :
                 /\ PairOf(res[i]) = PairOf(cands[c])
                 /\ CandidateColumn(res[i]) = CandidateColumn(cands[c])

\* the first candidate proposed for the ordered pair of tables of candidate c
FirstOfPair(cands, c) ==
    CHOOSE k \in 1..Len(cands) :
        /\ PairOf(cands[k]) = PairOf(cands[c])
        /\ \A m \in 1..(k - 1) : PairOf(cands[m]) # PairOf(cands[c])

\* C6 (amended): deduplication keys on (source_table, target_table) only: the
\* output holds exactly one relationship per ordered pair of tables that has a
\* candidate, and it is the first candidate proposed for that pair
C6_PairIsDedupKey ==
    LET cands == Candidates
    IN \A r \in 1..Len(results) :
         LET res == results[r]
         IN /\ \A i, j \in 1..Len(res) :
                 i # j => PairOf(res[i]) # PairOf(res[j])
            /\ \A c \in 1..Len(cands) :
                 \E i \in 1..Len(res) :
                    /\ PairOf(res[i]) = PairOf(cands[c])
                    /\ CandidateColumn(res[i]) =
                         CandidateColumn(cands[FirstOfPair(cands, c)])

\* C6 witness: mining ran on profiles whose candidates include two different
\* columns between the same ordered pair of tables
C6_Witness ==
    /\ Len(results) > 0
    /\ LET cands == Candidates
       IN \E c, d \in 1..Len(cands) :
            /\ PairOf(cands[c]) = PairOf(cands[d])
            /\ CandidateColumn(cands[c]) # CandidateColumn(cands[d])

\* C7: every mine_relationships call on the same profiles returns the same
\* list (content and order), on the same miner or on a fresh one, and the
\* miner holds the last result, not an accumulation
C7_MiningDeterministic ==
    /\ \A i, j \in 1..Len(results) : results[i] = results[j]
    /\ Len(results) > 0 =>
         relationships_found \in {<<>>, results[Len(results)]}

\* C7 witness: two calls were made and returned a non-empty list that the
\* miner still holds
C7_Witness ==
    /\ Len(results) >= 2
    /\ Len(results[2]) >= 2
    /\ relationships_found = results[2]

ClienteProfile == [name |-> n_Cliente, info |-> OkInfo(<<n_ClienteID, n_Nome>>, 500)]
PedidoProfile  ==
    [name |-> n_Pedido, info |-> OkInfo(<<n_PedidoID, n_ClienteID, n_Valor>>, 5000)]

\* C8 (as claimed): for Cliente{ClienteID,Nome} and Pedido{PedidoID,ClienteID,
\* Valor} mining yields Pedido.ClienteID -> Cliente from the naming detector
\* (whose type tag in the code is 'foreign_key_by_name') with final
\* confidence 1.0
C8_ScenarioConfidenceOne ==
    (tables_info \in {<<ClienteProfile, PedidoProfile>>, <<PedidoProfile, ClienteProfile>>})
    => \A r \in 1..Len(results) :
         \E i \in 1..Len(results[r]) :
            /\ results[r][i].source_table = n_Pedido
            /\ results[r][i].target_table = n_Cliente
            /\ CandidateColumn(results[r][i]) = n_ClienteID
            /\ results[r][i].relationship_type = "foreign_key_by_name"
            /\ results[r][i].confidence = 100

----------------------------------------------------------------------------
(* Scanning: ERPDataLoader.scan_data_directory and                         *)
(* ERPSchemaAnalyzer.analyze_all_tables.                                   *)
(*                                                                         *)
(* A file of the directory is [stem, readable, content]; content is the    *)
(* decoded text, one character per element.  Opening an unreadable file    *)
(* raises.  Time stamps (last_modified) and the per-column statistics of   *)
(* the pandas sample (dtypes, null_percentage, unique_values, sample_size) *)
(* are left out of the entries: no condition of the code reads them.       *)

MaxFiles   == 2      \* files in the data directory
MaxFileLen == 1      \* characters of a generated file content
MaxScans   == 2      \* scan calls in a behaviour

NL == "\n"

\* the three characters U+00EF U+00BB U+00BF that both counters compare the
\* start of the file with
BomChars == <<"U+00EF", "U+00BB", "U+00BF">>

\* bom = f.read(3); f.seek(0) unless bom is BomChars
SkipBom(content) ==
    IF Len(content) >= 3 /\ SubSeq(content, 1, 3) = BomChars
    THEN SubSeq(content, 4, Len(content))
    ELSE content

\* str.count('\n'), and what "wc -l" prints
CountNewlines(content) == Cardinality({ i \in 1..Len(content) : content[i] = NL })

\* number of iterations of "for line in f"
CountLines(content) ==
    CountNewlines(content)
    + (IF Len(content) > 0 /\ content[Len(content)] # NL THEN 1 ELSE 0)

\* lines 101-113: the fallback path of _count_csv_rows_fast on an opened file
CountFallback(content) == CountLines(SkipBom(content)) - 1

\* lines 90-99: the wc path of _count_csv_rows_fast
CountWithWc(content) == Max(CountNewlines(content) - 1, 0)

\* _count_csv_rows_fast: wc answers with return code 0 only when the utility
\* exists and can read the file; otherwise the fallback opens the file
CountCsvRowsFast(file, wc_available) ==
    IF wc_available /\ file.readable
    THEN [raised |-> FALSE, value |-> CountWithWc(file.content)]
    ELSE IF ~file.readable
    THEN [raised |-> TRUE, value |-> 0]
    ELSE [raised |-> FALSE, value |-> CountFallback(file.content)]

\* str.split(sep)
RECURSIVE Split(_, _)
Split(str, sep) ==
    IF \E i \in 1..Len(str) : str[i] = sep
    THEN LET i == CHOOSE k \in 1..Len(str) :
                    str[k] = sep /\ \A m \in 1..(k - 1) : str[m] # sep
         IN <<SubSeq(str, 1, i - 1)>> \o Split(SubSeq(str, i + 1, Len(str)), sep)
    ELSE <<str>>

\* the lines of a text, without their terminators
Lines(content) ==
    LET parts == Split(content, NL)
    IN IF Len(content) = 0 THEN <<>>
       ELSE IF content[Len(content)] = NL THEN SubSeq(parts, 1, Len(parts) - 1)
       ELSE parts

\* pandas.read_csv skips blank lines; it raises EmptyDataError when no line
\* is left to serve as header
NonBlankLines(content) == SelectSeq(Lines(content), LAMBDA l : Len(l) > 0)

ReadCsvFails(file) == ~file.readable \/ Len(NonBlankLines(file.content)) = 0

\* list(df.columns) of pandas.read_csv on a file it can parse
ReadCsvColumns(content) == Split(Head(NonBlankLines(content)), ",")

\* f.readline().strip().split(',') of the fallback of _get_csv_columns (the
\* modelled contents hold no blanks other than the newline)
HeaderFallback(content) ==
    LET lines == Lines(content)
    IN Split(IF Len(lines) = 0 THEN <<>> ELSE Head(lines), ",")

\* _get_csv_columns
GetCsvColumns(file) ==
    IF ~ReadCsvFails(file)
    THEN [raised |-> FALSE, value |-> ReadCsvColumns(file.content)]
    ELSE IF ~file.readable
    THEN [raised |-> TRUE, value |-> <<>>]
    ELSE [raised |-> FALSE, value |-> HeaderFallback(file.content)]

\* round(st_size / (1024 * 1024), 2), in hundredths of a megabyte
FileSizeMb(content) == (Len(content) * 200 + 1048576) \div (2 * 1048576)

\* lines 56-77: the body of the loop of scan_data_directory for one file
LoaderFileOutcome(file, wc_available) ==
    LET count == CountCsvRowsFast(file, wc_available)
        cols  == GetCsvColumns(file)
    IN IF count.raised \/ cols.raised
       THEN [kind |-> "entry", counted |-> FALSE,
             entry |-> [name |-> file.stem,
                        info |-> [file_path |-> file.stem,
                                  error     |-> "read error"]]]
       ELSE [kind |-> "entry", counted |-> TRUE,
             entry |-> [name |-> file.stem,
                        info |-> [file_path    |-> file.stem,
                                  file_size_mb |-> FileSizeMb(file.content),
                                  row_count    |-> count.value,
                                  columns      |-> cols.value]]]

\* dict[name] = info on an insertion-ordered dict
DictSet(d, name, info) ==
    IF \E i \in 1..Len(d) : d[i].name = name
    THEN [i \in 1..Len(d) |-> IF d[i].name = name THEN [name |-> name, info |-> info]
                              ELSE d[i]]
    ELSE Append(d, [name |-> name, info |-> info])

\* lines 53-79: the loop of scan_data_directory from file number i on;
\* acc holds the dict built and the records added so far
RECURSIVE LoaderLoop(_, _, _, _)
LoaderLoop(files, i, wc_available, acc) ==
    IF i > Len(files) THEN acc
    ELSE LET out == LoaderFileOutcome(files[i], wc_available)
         IN IF out.kind = "raise"
            THEN [acc EXCEPT !.aborted = TRUE]
            ELSE LoaderLoop(files, i + 1, wc_available,
                   [aborted |-> FALSE,
                    entries |-> DictSet(acc.entries, out.entry.name, out.entry.info),
                    records |-> acc.records
                                + (IF out.counted THEN out.entry.info.row_count ELSE 0)])

\* scan_data_directory(); wc_available: whether the wc utility can be run
ScanDataDirectory(wc_available) ==
    /\ scans < MaxScans
    /\ LET run == LoaderLoop(directory, 1, wc_available,
                             [aborted |-> FALSE, entries |-> <<>>, records |-> 0])
       IN /\ scan_stats' = [total_files   |-> Len(directory),
                            total_records |-> scan_stats.total_records + run.records]
          /\ file_info' = IF run.aborted THEN file_info ELSE run.entries
          /\ last_scan' = [kind |-> "loader", aborted |-> run.aborted,
                           files |-> directory, returned |-> run.entries,
                           failed_count |-> {}]
    /\ scans' = scans + 1
    /\ UNCHANGED <<directory, analyzer_tables, minerVars, loaderVars, threadVars, helperVars>>

\* count_rows; io_fails: reading the file raises inside count_rows
CountRows(file, io_fails) ==
    IF io_fails \/ ~file.readable
    THEN 0 - 1
    ELSE LET count == CountNewlines(SkipBom(file.content))
         IN IF count > 0 THEN count - 1 ELSE 0

\* lines 40-63: the body of the loop of analyze_all_tables for one file
AnalyzerFileOutcome(file, io_fails) ==
    IF ReadCsvFails(file)
    THEN [kind |-> "entry",
          entry |-> [name |-> file.stem,
                     info |-> [file_path |-> file.stem, error |-> "read error"]]]
    ELSE [kind |-> "entry",
          entry |-> [name |-> file.stem,
                     info |-> [file_path  |-> file.stem,
                               total_rows |-> CountRows(file, io_fails),
                               columns    |-> ReadCsvColumns(file.content)]]]

\* lines 37-63: the loop of analyze_all_tables from file number i on
RECURSIVE AnalyzerLoop(_, _, _, _)
AnalyzerLoop(files, i, failing, acc) ==
    IF i > Len(files) THEN acc
    ELSE LET out == AnalyzerFileOutcome(files[i], i \in failing)
         IN IF out.kind = "raise"
            THEN [acc EXCEPT !.aborted = TRUE]
            ELSE AnalyzerLoop(files, i + 1, failing,
                   [aborted |-> FALSE,
                    entries |-> DictSet(acc.entries, out.entry.name, out.entry.info)])

MaxTablesDefault == 50

\* lines 31-32: csv_files[:max_tables] when max_tables is truthy
Truncate(files, max_tables) ==
    IF max_tables # 0 THEN SubSeq(files, 1, Min(max_tables, Len(files))) ELSE files

\* analyze_all_tables(max_tables=max_tables); failing: the positions of the
\* files on which count_rows meets an I/O error
AnalyzeAllTables(max_tables, failing) ==
    /\ scans < MaxScans
    /\ IF Len(directory) = 0
       THEN /\ analyzer_tables' = analyzer_tables
            /\ last_scan' = [kind |-> "analyzer", aborted |-> FALSE,
                             files |-> <<>>, returned |-> <<>>,
                             failed_count |-> {}]
       ELSE LET csv_files == Truncate(directory, max_tables)
                run == AnalyzerLoop(csv_files, 1, failing,
                                    [aborted |-> FALSE, entries |-> analyzer_tables])
            IN /\ analyzer_tables' = run.entries
               /\ last_scan' = [kind |-> "analyzer", aborted |-> run.aborted,
                                files |-> csv_files, returned |-> run.entries,
                                failed_count |-> failing \cap (1..Len(csv_files))]
    /\ scans' = scans + 1
    /\ UNCHANGED <<directory, file_info, scan_stats, minerVars, loaderVars, threadVars, helperVars>>

(* The data directories of the model.                                      *)

Stems == <<"t1", "t2", "t3", "t4">>

\* every text of at most MaxFileLen characters over a data character and the
\* newline, plus longer files with records, with and without final newline
FileContents ==
    UNION { [1..n -> {"a", NL}] : n \in 0..MaxFileLen }
    \cup { <<"a", NL, "a">>,
           <<"a", NL, "a", NL>>,
           <<"a", ",", "b", NL, "a", ",", "a", NL, "a", ",", "a">> }

FileStates ==
    [readable : {TRUE}, content : FileContents]
    \cup {[readable |-> FALSE, content |-> <<>>]}

Directories ==
    UNION { { [i \in 1..n |-> [stem     |-> Stems[i],
                               readable |-> fs[i].readable,
                               content  |-> fs[i].content]] :
              fs \in [1..n -> FileStates] } : n \in 0..MaxFiles }

InitScan ==
    /\ directory \in Directories
    /\ ScanInit
    /\ tables_info = <<>>
    /\ MinerInit
    /\ LoaderInit
    /\ HelperInit

NextScan ==
    \/ \E wc_available \in BOOLEAN : ScanDataDirectory(wc_available)
    \/ \E max_tables \in {1, MaxTablesDefault} :
         \E failing \in {{}} \cup {{i} : i \in 1..Len(directory)} :
            AnalyzeAllTables(max_tables, failing)

SpecScan == InitScan /\ [][NextScan]_vars

(* Scans of a data directory whose files are added and removed between    *)
(* the scans.                                                              *)

\* a file with a header line and two records
TwoRecordFile == <<"a", NL, "a", NL, "a", NL>>

\* the CSV file with the i-th name
FileNamed(i) == [stem |-> Stems[i], readable |-> TRUE, content |-> TwoRecordFile]

\* a CSV file is removed from the data directory
RemoveFile(i) ==
    /\ i \in 1..Len(directory)
    /\ directory' = [k \in 1..(Len(directory) - 1) |->
                       IF k < i THEN directory[k] ELSE directory[k + 1]]
    /\ UNCHANGED <<file_info, scan_stats, analyzer_tables, last_scan, scans,
                   minerVars, loaderVars, threadVars, helperVars>>

\* a CSV file is added to the data directory; the listing stays in name order
AddFile(i) ==
    /\ i \in 1..MaxFiles
    /\ \A k \in 1..Len(directory) : directory[k].stem # Stems[i]
    /\ directory' = SelectSeq([k \in 1..MaxFiles |->
                                 IF k = i \/ \E m \in 1..Len(directory) :
                                                directory[m].stem = Stems[k]
                                 THEN FileNamed(k)
                                 ELSE [stem |-> "", readable |-> FALSE, content |-> <<>>]],
                              LAMBDA f : f.stem # "")
    /\ UNCHANGED <<file_info, scan_stats, analyzer_tables, last_scan, scans,
                   minerVars, loaderVars, threadVars, helperVars>>

InitDirectory ==
    /\ directory = [k \in 1..MaxFiles |-> FileNamed(k)]
    /\ ScanInit
    /\ tables_info = <<>>
    /\ MinerInit
    /\ LoaderInit
    /\ HelperInit

NextDirectory ==
    \/ \E wc_available \in BOOLEAN : ScanDataDirectory(wc_available)
    \/ AnalyzeAllTables(MaxTablesDefault, {})
    \/ \E i \in 1..MaxFiles : RemoveFile(i)
    \/ \E i \in 1..MaxFiles : AddFile(i)

SpecDirectory == InitDirectory /\ [][NextDirectory]_vars

----------------------------------------------------------------------------
(* Claims about scanning.                                                  *)

\* the profile set held by the loader and the one held by the analyzer
ScanProfiles ==
    { file_info[i].info : i \in 1..Len(file_info) }
    \cup { analyzer_tables[i].info : i \in 1..Len(analyzer_tables) }

\* the row count of a profile, under the key of its producer
RowCount(info) ==
    IF "row_count" \in DOMAIN info THEN info.row_count ELSE info.total_rows

\* C3 (as claimed): every profile produced by a scan carries an error or has
\* a row count >= 0
C3_RowCountNeverNegative ==
    \A info \in ScanProfiles : "error" \in DOMAIN info \/ RowCount(info) >= 0

\* C4 (as claimed): a failure while reading one file never aborts a scan: the
\* scan returns one entry per file it was given (for the analyzer, the listing
\* cut to max_tables), the entry of every file whose reading failed (the file
\* cannot be opened, or count_rows met an I/O error on it) holds the error,
\* and every readable file after it still gets its profile
C4_ScanIsolatesFailures ==
    last_scan.kind # "none" =>
        /\ ~last_scan.aborted
        /\ \A i \in 1..Len(last_scan.files) :
             \E k \in 1..Len(last_scan.returned) :
                /\ last_scan.returned[k].name = last_scan.files[i].stem
                /\ (~last_scan.files[i].readable \/ i \in last_scan.failed_count)
                     => "error" \in DOMAIN last_scan.returned[k].info
                /\ (/\ last_scan.files[i].readable
                    /\ i \notin last_scan.failed_count
                    /\ \E l \in 1..Len(last_scan.files[i].content) :
                          last_scan.files[i].content[l] # NL)
                     => "error" \notin DOMAIN last_scan.returned[k].info
        /\ last_scan.kind = "loader" => Len(last_scan.returned) = Len(last_scan.files)

----------------------------------------------------------------------------
(* ERPDataLoader.load_table.                                               *)
(*                                                                         *)
(* A DataFrame is [columns, rows]: the column names in order and the rows  *)
(* in order, each row a function from column name to value.  DataFrame     *)
(* objects live in heap and are named by their position in it, so that two *)
(* names of one object see each other's changes.  The CSV file of a table  *)
(* is represented by the DataFrame pandas parses it into.  The directory   *)
(* data/metadata is taken to exist, so writing the pickle and the schema   *)
(* JSON succeeds.                                                          *)

MaxLoads == 2        \* load_table calls in a behaviour

ChunkSize == 100000
DefaultSampleSize == 10000
LargeSampleThreshold == 100000
LargeTableRows == 1000000

\* absent arguments: sample_size None and 0 are both falsy and take the same
\* branches everywhere; filters None and {} likewise; columns None is the
\* empty sequence (an explicit empty column list is not among the calls)
NoSampleSize == 0
NoColumns    == <<>>
NoFilters    == <<>>

\* the parsed content of the CSV file of a table
SourceTable(table_name) ==
    [columns |-> <<"a", "b">>,
     rows    |-> << [a |-> 1, b |-> 1], [a |-> 2, b |-> 1] >>]

\* the profile set a scan left in _metadata_cache['file_info']: two tables
\* with data, the name of one beginning with the name of the other, and one
\* table in error state
LoaderFileInfo ==
    << [name |-> n_Pedido,
        info |-> [file_path |-> n_Pedido, file_size_mb |-> 0,
                  row_count |-> Len(SourceTable(n_Pedido).rows),
                  columns |-> <<"a", "b">>]],
       [name |-> n_Venda,
        info |-> [file_path |-> n_Venda, error |-> "read error"]],
       [name |-> n_PedidoItem,
        info |-> [file_path |-> n_PedidoItem, file_size_mb |-> 0,
                  row_count |-> Len(SourceTable(n_PedidoItem).rows),
                  columns |-> <<"a", "b">>]] >>

\* key in d, for an insertion-ordered dict
HasKey(d, name) == \E i \in 1..Len(d) : d[i].name = name

\* d[key]
Lookup(d, name) == d[CHOOSE i \in 1..Len(d) : d[i].name = name].info

\* the dict without the key
DictRemove(d, name) == SelectSeq(d, LAMBDA entry : entry.name # name)

\* position of a one-character column name in the alphabet (string order)
CharRank(c) == CHOOSE i \in 1..26 : LowerAlphabet[i] = c

\* sorted(columns)
RECURSIVE SortNames(_)
SortNames(names) ==
    IF Len(names) = 0 THEN <<>>
    ELSE LET least == CHOOSE i \in 1..Len(names) :
                        \A j \in 1..Len(names) : CharRank(names[i]) <= CharRank(names[j])
         IN <<names[least]>>
            \o SortNames([k \in 1..(Len(names) - 1) |->
                            IF k < least THEN names[k] ELSE names[k + 1]])

\* ','.join(names)
RECURSIVE JoinComma(_)
JoinComma(names) ==
    IF Len(names) = 0 THEN <<>>
    ELSE IF Len(names) = 1 THEN <<names[1]>>
    ELSE <<names[1], ",">> \o JoinComma(Tail(names))

\* repr of a filter condition
ConditionRepr(cond) ==
    CASE cond.kind = "eq"    -> <<ToString(cond.value)>>
      [] cond.kind = "range" -> <<"(", ToString(cond.lo), ", ", ToString(cond.hi), ")">>
      [] cond.kind = "in"    -> <<"[">> \o JoinComma([i \in 1..Len(cond.values) |->
                                                        ToString(cond.values[i])]) \o <<"]">>

\* str(sorted(filters.items())); filters is a dict column -> condition
FiltersRepr(filters) ==
    LET cols == SortNames([i \in 1..Len(filters) |-> filters[i].name])
    IN <<"[">>
       \o Concat([i \in 1..Len(cols) |->
                    <<"('", cols[i], "', ">> \o ConditionRepr(Lookup(filters, cols[i]))
                    \o <<")">>])
       \o <<"]">>

\* a cache key that also holds the number of the call, as a key made with a
\* timestamp would
GenerateCacheKeyPerCall(table_name, sample_only, sample_size, columns, filters) ==
    table_name \o <<"_", ToString(loads)>>

\* _generate_cache_key: the five parts joined with '_'
GenerateCacheKey(table_name, sample_only, sample_size, columns, filters) ==
    table_name
    \o <<"_", IF sample_only THEN "sample" ELSE "full">>
    \o <<"_", IF sample_size # NoSampleSize
              THEN ToString(sample_size) ELSE "nosample">>
    \o <<"_">> \o (IF columns # NoColumns
                   THEN JoinComma(SortNames(columns)) ELSE <<"allcols">>)
    \o <<"_">> \o (IF filters # NoFilters
                   THEN FiltersRepr(filters) ELSE <<"nofilters">>)

\* one condition of _apply_filters on one row
RowPasses(row, column, cond) ==
    CASE cond.kind = "range" -> row[column] >= cond.lo /\ row[column] <= cond.hi
      [] cond.kind = "in"    -> \E i \in 1..Len(cond.values) : row[column] = cond.values[i]
      [] cond.kind = "eq"    -> row[column] = cond.value

\* _apply_filters: conditions on columns the frame does not have are ignored
ApplyFilters(df, filters) ==
    [columns |-> df.columns,
     rows    |-> SelectSeq(df.rows, LAMBDA row :
                   \A i \in 1..Len(filters) :
                      (\E c \in 1..Len(df.columns) : df.columns[c] = filters[i].name)
                        => RowPasses(row, filters[i].name, filters[i].info))]

\* the rows restricted to the given columns
ProjectRows(rows, columns) ==
    [r \in 1..Len(rows) |->
       [c \in {columns[i] : i \in 1..Len(columns)} |-> rows[r][c]]]

HasColumns(df, columns) ==
    \A i \in 1..Len(columns) : \E c \in 1..Len(df.columns) : df.columns[c] = columns[i]

\* pd.read_csv(usecols=columns): the requested columns in file order;
\* raises when a requested column is not in the file
ReadCsv(df, columns) ==
    IF columns = NoColumns THEN [raised |-> FALSE, df |-> df]
    ELSE IF ~HasColumns(df, columns) THEN [raised |-> TRUE]
    ELSE LET kept == SelectSeq(df.columns, LAMBDA c :
                        \E i \in 1..Len(columns) : columns[i] = c)
         IN [raised |-> FALSE,
             df |-> [columns |-> kept, rows |-> ProjectRows(df.rows, kept)]]

\* pd.read_parquet(columns=columns): the requested columns in the requested
\* order; raises when a requested column is not in the artifact
ReadParquet(df, columns) ==
    IF columns = NoColumns THEN [raised |-> FALSE, df |-> df]
    ELSE IF ~HasColumns(df, columns) THEN [raised |-> TRUE]
    ELSE [raised |-> FALSE,
          df |-> [columns |-> columns, rows |-> ProjectRows(df.rows, columns)]]

\* _load_parquet
LoadParquet(artifact, columns, filters) ==
    LET read == ReadParquet(artifact, columns)
    IN IF read.raised THEN read
       ELSE [raised |-> FALSE,
             df |-> IF filters # NoFilters
                    THEN ApplyFilters(read.df, filters) ELSE read.df]

\* lines 243-254 of _load_and_convert_to_parquet: the frame that is written
\* to the artifact and returned (filtering every chunk and concatenating is
\* filtering the whole)
ConvertedFrame(source, columns, filters) ==
    LET read == ReadCsv(source, columns)
    IN IF read.raised THEN read
       ELSE [raised |-> FALSE,
             df |-> IF filters # NoFilters
                    THEN ApplyFilters(read.df, filters) ELSE read.df]

\* df.sample(n=n, random_state=42) on a frame of the given length: the seed
\* fixes the n distinct positions, in drawing order, as a function of (length, n)
SampledPositions(length, n) ==
    CHOOSE pos \in [1..n -> 1..length] :
        \A i, j \in 1..n : i # j => pos[i] # pos[j]

SampleRows(rows, n) ==
    LET pos == SampledPositions(Len(rows), n)
    IN [i \in 1..n |-> rows[pos[i]]]

\* df.head(n) on rows
HeadRows(rows, n) == SubSeq(rows, 1, Min(n, Len(rows)))

\* lines 186-196: the chunk loop of the large-sample path, from row number
\* start on; acc holds the rows sampled so far
RECURSIVE SampleChunks(_, _, _, _)
SampleChunks(rows, start, sample_size, acc) ==
    IF start > Len(rows) THEN acc
    ELSE LET chunk  == SubSeq(rows, start, Min(start + ChunkSize - 1, Len(rows)))
             taken  == acc \o SampleRows(chunk, Min(sample_size \div 10, Len(chunk)))
         IN IF Len(taken) >= sample_size THEN taken
            ELSE SampleChunks(rows, start + ChunkSize, sample_size, taken)

\* _load_sample
LoadSample(source, sample_size, columns) ==
    LET read == ReadCsv(source, columns)
    IN IF read.raised THEN read
       ELSE IF sample_size > LargeSampleThreshold
       THEN [raised |-> FALSE,
             df |-> [columns |-> read.df.columns,
                     rows |-> HeadRows(SampleChunks(read.df.rows, 1, sample_size, <<>>),
                                       sample_size)]]
       ELSE LET first == HeadRows(read.df.rows, sample_size * 3)
            IN [raised |-> FALSE,
                df |-> [columns |-> read.df.columns,
                        rows |-> IF Len(first) > sample_size
                                 THEN SampleRows(first, sample_size) ELSE first]]

\* lines 143-158 of load_table: the frame a miss loads, the artifact written
\* on the way (if any), or the exception
LoadMiss(table_name, sample_only, sample_size, columns, filters) ==
    IF ~HasKey(file_info, table_name)
       \/ "error" \in DOMAIN Lookup(file_info, table_name)
    THEN [raised |-> TRUE, converted |-> FALSE]
    ELSE LET info   == Lookup(file_info, table_name)
             source == SourceTable(info.file_path)
             sized  == sample_size # NoSampleSize
             got    == IF sample_only \/ (info.row_count > LargeTableRows /\ sized)
                       THEN LoadSample(source,
                                       IF sized THEN sample_size ELSE DefaultSampleSize,
                                       columns)
                       ELSE IF HasKey(parquet, info.file_path)
                       THEN LoadParquet(Lookup(parquet, info.file_path), columns, filters)
                       ELSE ConvertedFrame(source, columns, filters)
             converted == /\ ~(sample_only \/ (info.row_count > LargeTableRows /\ sized))
                          /\ ~HasKey(parquet, info.file_path)
                          /\ ~got.raised
         IN IF got.raised THEN [raised |-> TRUE, converted |-> FALSE]
            ELSE [raised |-> FALSE, converted |-> converted,
                  stem   |-> info.file_path,
                  stored |-> got.df,
                  df     |-> IF filters # NoFilters
                             THEN ApplyFilters(got.df, filters) ELSE got.df]

\* line 140: return self._data_cache[cache_key].copy()
ReturnCachedCopy(h, ref) == [heap |-> Append(h, h[ref]), ref |-> Len(h) + 1]

\* "self._data_cache[cache_key] = df" without the copy: the cache holds the
\* object that is returned to the caller
StoreSameObject(h, ref) == [heap |-> h, ref |-> ref]

\* line 162: self._data_cache[cache_key] = df.copy()
StoreCopy(h, ref) == [heap |-> Append(h, h[ref]), ref |-> Len(h) + 1]

\* a failing call counted nowhere
StatsUntouched(stats) == stats

\* line 142, reached by the calls that raise at line 146 too
StatsAfterFailedLoad(stats) == [stats EXCEPT !.cache_misses = @ + 1]

\* load_table(table_name, use_cache, sample_only, sample_size, columns, filters)
\* called by a function that, when the call returns, writes the schema files
\* of the tables in schema_written
LoadTableThen(table_name, use_cache, sample_only, sample_size, columns, filters, schema_written) ==
    /\ loads < MaxLoads
    /\ loads' = loads + 1
    /\ LET cache_key == GenerateCacheKey(table_name, sample_only, sample_size,
                                         columns, filters)
           args == [table_name |-> table_name, use_cache |-> use_cache,
                    sample_only |-> sample_only, sample_size |-> sample_size,
                    columns |-> columns, filters |-> filters]
       IN IF use_cache /\ HasKey(data_cache, cache_key)
          THEN LET ret == ReturnCachedCopy(heap, Lookup(data_cache, cache_key))
               IN /\ load_stats' = [load_stats EXCEPT !.cache_hits = @ + 1]
                  /\ heap' = ret.heap
                  /\ held' = held \cup {ret.ref}
                  /\ last_load' = [kind |-> "hit", args |-> args, key |-> cache_key,
                                   df |-> ret.heap[ret.ref]]
                  /\ schema_files' = schema_files \cup schema_written
                  /\ UNCHANGED <<parquet, data_cache, loaded>>
          ELSE LET miss == LoadMiss(table_name, sample_only, sample_size, columns, filters)
               IN IF miss.raised
                  THEN /\ load_stats' = StatsAfterFailedLoad(load_stats)
                       /\ last_load' = [kind |-> "raise", args |-> args, key |-> cache_key]
                       /\ UNCHANGED <<parquet, schema_files, heap, data_cache, held, loaded>>
                  ELSE LET df_ref == Len(heap) + 1
                           heap1  == Append(heap, miss.df)
                           store  == StoreCopy(heap1, df_ref)
                       IN /\ parquet' = IF miss.converted
                                        THEN DictSet(parquet, miss.stem, miss.stored)
                                        ELSE parquet
                          /\ schema_files' = (IF miss.converted
                                              THEN schema_files \cup {miss.stem}
                                              ELSE schema_files) \cup schema_written
                          /\ heap' = IF use_cache THEN store.heap ELSE heap1
                          /\ data_cache' = IF use_cache
                                           THEN DictSet(data_cache, cache_key, store.ref)
                                           ELSE data_cache
                          /\ loaded' = IF use_cache
                                       THEN DictSet(loaded, cache_key, miss.df)
                                       ELSE loaded
                          /\ load_stats' =
                               [load_stats EXCEPT
                                  !.cache_misses = @ + 1,
                                  !.loaded_tables =
                                     DictSet(@, table_name,
                                             [rows_loaded    |-> Len(miss.df.rows),
                                              columns_loaded |-> Len(miss.df.columns)])]
                          /\ held' = held \cup {df_ref}
                          /\ last_load' = [kind |-> "miss", args |-> args,
                                           key |-> cache_key, df |-> miss.df]
    /\ UNCHANGED <<minerVars, scanVars, threadVars, helperVars>>

\* load_table(table_name, use_cache, sample_only, sample_size, columns, filters)
LoadTable(table_name, use_cache, sample_only, sample_size, columns, filters) ==
    LoadTableThen(table_name, use_cache, sample_only, sample_size, columns, filters, {})

\* sample size of the load of get_table_schema (line 363)
SchemaSampleSize == 1000

\* get_table_schema(table_name): the stored schema if its file exists,
\* otherwise a sample load followed by the writing of the schema file
GetTableSchema(table_name) ==
    IF table_name \in schema_files
    THEN UNCHANGED vars
    ELSE LoadTableThen(table_name, TRUE, TRUE, SchemaSampleSize, NoColumns, NoFilters,
                       {table_name})

\* a caller changes a DataFrame it was given, in place: df['x'] = 0
CallerMutates(ref) ==
    /\ ref \in held
    /\ ~(\E c \in 1..Len(heap[ref].columns) : heap[ref].columns[c] = "x")
    /\ heap' = [heap EXCEPT ![ref] =
                  [columns |-> Append(@.columns, "x"),
                   rows    |-> [r \in 1..Len(@.rows) |->
                                  [c \in DOMAIN @.rows[r] \cup {"x"} |->
                                     IF c = "x" THEN 0 ELSE @.rows[r][c]]]]]
    /\ UNCHANGED <<parquet, schema_files, data_cache, load_stats, held, loaded,
                   last_load, loads, minerVars, scanVars, threadVars, helperVars>>

\* clear_cache(): table_name None
NoTable == <<>>

\* clear_cache(table_name)
ClearCache(table_name) ==
    /\ data_cache' = IF table_name # NoTable
                     THEN SelectSeq(data_cache, LAMBDA entry :
                             ~StartsWith(entry.name, table_name))
                     ELSE <<>>
    /\ UNCHANGED <<parquet, schema_files, heap, load_stats, held, loaded,
                   last_load, loads, minerVars, scanVars, threadVars, helperVars>>

(* The arguments of the modelled calls.                                    *)

TableArgs   == {n_Pedido, n_Venda, n_Cliente}
SampleArgs  == { [sample_only |-> FALSE, sample_size |-> NoSampleSize],
                 [sample_only |-> TRUE,  sample_size |-> 1] }
ColumnArgs  == {NoColumns, <<"a">>, <<"b">>}
FilterArgs  == {NoFilters, <<[name |-> "a", info |-> [kind |-> "eq", value |-> 1]]>>}

InitLoader ==
    /\ LoaderInit
    /\ HelperInit
    /\ file_info = LoaderFileInfo
    /\ scan_stats = [total_files |-> 3, total_records |-> 4]
    /\ analyzer_tables = <<>>
    /\ last_scan = [kind |-> "none"]
    /\ scans = 0
    /\ directory = <<>>
    /\ tables_info = <<>>
    /\ MinerInit

NextLoader ==
    \/ \E table_name \in TableArgs, use_cache \in BOOLEAN, sample \in SampleArgs,
          columns \in ColumnArgs, filters \in FilterArgs :
         LoadTable(table_name, use_cache, sample.sample_only, sample.sample_size,
                   columns, filters)
    \/ \E ref \in held : CallerMutates(ref)

SpecLoader == InitLoader /\ [][NextLoader]_vars

(* Cached loads of two tables, one name beginning with the other, and      *)
(* clear_cache calls in between.                                           *)

CacheTableArgs == {n_Pedido, n_PedidoItem}

NextCache ==
    \/ \E table_name \in CacheTableArgs, sample \in SampleArgs, filters \in FilterArgs :
         LoadTable(table_name, TRUE, sample.sample_only, sample.sample_size,
                   NoColumns, filters)
    \/ \E table_name \in CacheTableArgs \cup {NoTable} : ClearCache(table_name)

SpecCache == InitLoader /\ [][NextCache]_vars

(* Loads with and without the cache, of tables that load and of tables    *)
(* that do not, and get_table_schema calls.                                *)

NextStats ==
    \/ \E table_name \in TableArgs, use_cache \in BOOLEAN, sample \in SampleArgs,
          filters \in FilterArgs :
         LoadTable(table_name, use_cache, sample.sample_only, sample.sample_size,
                   NoColumns, filters)
    \/ \E table_name \in TableArgs : GetTableSchema(table_name)

SpecStats == InitLoader /\ [][NextStats]_vars

(* Loads with scans of a changed data directory in between.  The scan is   *)
(* represented by the profile set it computes (SpecScan has the            *)
(* computation): it replaces _metadata_cache['file_info'], adds the row    *)
(* counts to stats['total_records'] and leaves _data_cache alone.          *)

\* the profile sets of the directory after a change: as at the start, with
\* Pedido.csv removed, with Pedido.csv unreadable
RescanProfileSets ==
    { LoaderFileInfo,
      DictRemove(LoaderFileInfo, n_Pedido),
      [i \in 1..Len(LoaderFileInfo) |->
         IF LoaderFileInfo[i].name = n_Pedido
         THEN [name |-> n_Pedido,
               info |-> [file_path |-> n_Pedido, error |-> "read error"]]
         ELSE LoaderFileInfo[i]] }

RECURSIVE SumRowCounts(_)
\* lines 53-71: the row counts added to stats['total_records'] by one scan
SumRowCounts(info) ==
    IF Len(info) = 0 THEN 0
    ELSE (IF "error" \in DOMAIN info[1].info THEN 0 ELSE info[1].info.row_count)
         + SumRowCounts(Tail(info))

\* scan_data_directory() on the loader, the directory now yielding new_info
Rescan(new_info) ==
    /\ scans < MaxScans
    /\ scans' = scans + 1
    /\ file_info' = new_info
    /\ scan_stats' = [total_files   |-> Len(new_info),
                      total_records |-> scan_stats.total_records + SumRowCounts(new_info)]
    /\ UNCHANGED <<directory, analyzer_tables, last_scan, minerVars, loaderVars,
                   threadVars, helperVars>>

RescanTableArgs == {n_Pedido, n_Venda, n_Cliente}

NextRescan ==
    \/ \E table_name \in RescanTableArgs, use_cache \in BOOLEAN :
         LoadTable(table_name, use_cache, FALSE, NoSampleSize, NoColumns, NoFilters)
    \/ \E new_info \in RescanProfileSets : Rescan(new_info)

SpecRescan == InitLoader /\ [][NextRescan]_vars

(* _load_sample by row counts.  The number of rows _load_sample returns    *)
(* depends on the number of data rows of the file and on sample_size only,  *)
(* so the two paths are followed on lengths: len(chunk), len(df).           *)

RECURSIVE SampleChunksLength(_, _, _)
\* lines 186-196: the chunk loop of the large-sample path; remaining is the
\* number of rows the reader has not yielded yet, acc is
\* len(pd.concat(chunks)) so far
SampleChunksLength(remaining, sample_size, acc) ==
    IF remaining = 0 THEN acc
    ELSE LET chunk_len == Min(ChunkSize, remaining)
             taken     == acc + Min(sample_size \div 10, chunk_len)
         IN IF taken >= sample_size THEN taken
            ELSE SampleChunksLength(remaining - chunk_len, sample_size, taken)

\* _load_sample: len(df) of the frame returned for a file of total_rows data
\* rows; on the large-sample path a file without data rows leaves chunks
\* empty and pd.concat raises
LoadSampleLength(total_rows, sample_size) ==
    IF sample_size > LargeSampleThreshold
    THEN IF total_rows = 0 THEN [raised |-> TRUE]
         ELSE [raised |-> FALSE,
               rows   |-> Min(SampleChunksLength(total_rows, sample_size, 0), sample_size)]
    ELSE LET read == Min(total_rows, sample_size * 3)
         IN [raised |-> FALSE,
             rows   |-> IF read > sample_size THEN sample_size ELSE read]

\* _load_sample(file_path, sample_size) on a file of total_rows data rows
LoadSampleCall(total_rows, sample_size) ==
    /\ sample_call' = [called |-> TRUE, total_rows |-> total_rows,
                       sample_size |-> sample_size,
                       result |-> LoadSampleLength(total_rows, sample_size)]
    /\ UNCHANGED <<type_call, minerVars, scanVars, loaderVars, threadVars>>

\* the data rows of the sampled files and the sample sizes asked for, on
\* both sides of the threshold and of the chunk size
SampledFileRows ==
    {0, 1, 5, 9999, 10000, 30000, 99999, 100000, 100001, 150000, 200000, 250000,
     500000, 1000000, 1100000, 2500000}
SampleSizeArgs ==
    {1, 5, 10, 10000, 100000, 100001, 150000, 200000, 1000000, 1000001}

NextSample ==
    \E total_rows \in SampledFileRows, sample_size \in SampleSizeArgs :
       LoadSampleCall(total_rows, sample_size)

SpecSample == InitLoader /\ [][NextSample]_vars

----------------------------------------------------------------------------
(* DataHelper.detect_column_semantic_type (src/src/data_loader_helper.py). *)
(*                                                                         *)
(* sample_data, a pandas Series, is a sequence of values; a value is null  *)
(* (NaN/None) or holds the characters of str(v).  The samples of the model *)
(* hold digit strings, which pd.to_numeric parses, and words, which it      *)
(* turns into NaN.  They are at most 80 values long: for such lengths       *)
(* len(sample_data) * 0.7 is computed without rounding error whenever it is *)
(* a whole number, so the comparison with the count is exact.               *)

w_code == <<"c", "o", "d", "e">>
w_numero == <<"n", "u", "m", "e", "r", "o">>
w_num == <<"n", "u", "m">>
w_nro == <<"n", "r", "o">>
w_chave == <<"c", "h", "a", "v", "e">>
w_data == <<"d", "a", "t", "a">>
w_date == <<"d", "a", "t", "e">>
w_dt == <<"d", "t", "_">>
w_hora == <<"h", "o", "r", "a">>
w_time == <<"t", "i", "m", "e">>
w_periodo == <<"p", "e", "r", "i", "o", "d", "o">>
w_valor == <<"v", "a", "l", "o", "r">>
w_preco == <<"p", "r", "e", "c", "o">>
w_custo == <<"c", "u", "s", "t", "o">>
w_total == <<"t", "o", "t", "a", "l">>
w_vlr == <<"v", "l", "r">>
w_desconto == <<"d", "e", "s", "c", "o", "n", "t", "o">>
w_acrescimo == <<"a", "c", "r", "e", "s", "c", "i", "m", "o">>
w_lucro == <<"l", "u", "c", "r", "o">>
w_prejuizo == <<"p", "r", "e", "j", "u", "i", "z", "o">>
w_quantidade == <<"q", "u", "a", "n", "t", "i", "d", "a", "d", "e">>
w_qtd == <<"q", "t", "d">>
w_qtde == <<"q", "t", "d", "e">>
w_saldo == <<"s", "a", "l", "d", "o">>
w_peso == <<"p", "e", "s", "o">>
w_volume == <<"v", "o", "l", "u", "m", "e">>
w_medida == <<"m", "e", "d", "i", "d", "a">>

IdPatterns    == <<w_id, w_cod, w_code, w_key, w_numero, w_num, w_nro, w_chave>>
DatePatterns  == <<w_data, w_date, w_dt, w_hora, w_time, w_periodo>>
MoneyPatterns == <<w_valor, w_preco, w_custo, w_total, w_vlr, w_venda, w_compra, w_desconto, w_acrescimo, w_lucro, w_prejuizo>>
QtyPatterns   == <<w_quantidade, w_qtd, w_qtde, w_estoque, w_saldo, w_peso, w_volume, w_medida>>

\* the boolean vocabulary of line 61 ('n\~ao' is written with a-tilde in the
\* source; no sample of the model holds it)
BooleanVocabulary ==
    { <<"0">>, <<"1">>, <<"t", "r", "u", "e">>, <<"f", "a", "l", "s", "e">>,
      <<"s", "i", "m">>, <<"y", "e", "s">>, <<"n", "o">> }

NullValue == [null |-> TRUE, str |-> <<>>]
Value(chars) == [null |-> FALSE, str |-> chars]

Digits == <<"0", "1", "2", "3", "4", "5", "6", "7", "8", "9">>

\* pd.to_numeric(..., errors='coerce') gives a number, not NaN, for the value
ParsesAsNumber(v) ==
    /\ ~v.null
    /\ Len(v.str) > 0
    /\ \A i \in 1..Len(v.str) : \E d \in 1..10 : Digits[d] = v.str[i]

\* any(pattern in col_name_lower for pattern in patterns)
AnyPatternIn(patterns, col_name_lower) ==
    \E p \in 1..Len(patterns) : Contains(patterns[p], col_name_lower)

\* sample_data.dropna().unique()
UniqueVals(sample_data) ==
    { sample_data[i] : i \in { k \in 1..Len(sample_data) : ~sample_data[k].null } }

\* numeric_sample.notna().sum()
NumericCount(sample_data) ==
    Cardinality({ i \in 1..Len(sample_data) : ParsesAsNumber(sample_data[i]) })

\* the numeric test with ">=" and the non-null values as the whole
NumericShareOfNonNull(sample_data) ==
    NumericCount(sample_data) * 10
      >= Cardinality({ i \in 1..Len(sample_data) : ~sample_data[i].null }) * 7

\* line 72: numeric_sample.notna().sum() > len(sample_data) * 0.7
NumericShare(sample_data) ==
    NumericCount(sample_data) * 10 > Len(sample_data) * 7

\* detect_column_semantic_type(column_name, sample_data)
DetectColumnSemanticType(column_name, sample_data) ==
    LET col_name_lower == Lower(column_name)
        unique_vals    == UniqueVals(sample_data)
    IN IF AnyPatternIn(IdPatterns, col_name_lower) THEN "id"
       ELSE IF AnyPatternIn(DatePatterns, col_name_lower) THEN "date"
       ELSE IF AnyPatternIn(MoneyPatterns, col_name_lower) THEN "currency"
       ELSE IF AnyPatternIn(QtyPatterns, col_name_lower) THEN "quantity"
       ELSE IF Len(sample_data) > 0
       THEN IF /\ Cardinality(unique_vals) <= 3
               /\ { Lower(v.str) : v \in unique_vals } \subseteq BooleanVocabulary
            THEN "boolean"
            ELSE IF Cardinality(unique_vals) < 20 THEN "categorical"
            ELSE IF NumericShare(sample_data) THEN "numeric"
            ELSE "text"
       ELSE "text"

\* detect_column_semantic_type called on a column
DetectCall(column_name, sample_data) ==
    /\ type_call' = [called |-> TRUE, column_name |-> column_name,
                     sample_data |-> sample_data,
                     result |-> DetectColumnSemanticType(column_name, sample_data)]
    /\ UNCHANGED <<sample_call, minerVars, scanVars, loaderVars, threadVars>>

(* The columns the function is called on.                                  *)

n_DataPedido == <<"D", "a", "t", "a", "P", "e", "d", "i", "d", "o">>
n_DataVenda == <<"D", "a", "t", "a", "V", "e", "n", "d", "a">>
n_ValorEstoque == <<"V", "a", "l", "o", "r", "E", "s", "t", "o", "q", "u", "e">>
n_Saldo == <<"S", "a", "l", "d", "o">>
n_Ativo == <<"A", "t", "i", "v", "o">>
n_Status == <<"S", "t", "a", "t", "u", "s">>
n_Validade == <<"V", "a", "l", "i", "d", "a", "d", "e">>

ColumnNameArgs ==
    { n_ClienteID, n_DataPedido, n_DataVenda, n_Valor, n_ValorEstoque, n_Saldo,
      n_Nome, n_Ativo, n_Status, n_Validade, n_Venda }

\* the decimal digits of i, for 0 <= i <= 99
NumberChars(i) ==
    IF i < 10 THEN <<Digits[i + 1]>> ELSE <<Digits[(i \div 10) + 1], Digits[(i % 10) + 1]>>

\* a sample of numbers different digit strings, words different words and
\* nulls null values
MixedSample(numbers, words, nulls) ==
    [i \in 1..numbers |-> Value(NumberChars(i))]
    \o [i \in 1..words |-> Value(<<"w">> \o NumberChars(i))]
    \o [i \in 1..nulls |-> NullValue]

SampleDataArgs ==
    { MixedSample(numbers, words, nulls) :
        numbers \in {0, 2, 14, 20, 21, 30}, words \in {0, 1, 6, 9, 20}, nulls \in {0, 10} }
    \cup { << Value(<<"S", "i", "m">>), Value(<<"N", "o">>), Value(<<"S", "i", "m">>) >>,
           << Value(<<"1">>), Value(<<"0">>), NullValue, Value(<<"T", "R", "U", "E">>) >>,
           << Value(<<"1">>), Value(<<"0">>), Value(<<"2">>) >>,
           << Value(<<"1">>), Value(<<"0">>), Value(<<"y", "e", "s">>), Value(<<"n", "o">>) >> }

NextDetect ==
    \E column_name \in ColumnNameArgs, sample_data \in SampleDataArgs :
       DetectCall(column_name, sample_data)

SpecDetect == InitLoader /\ [][NextDetect]_vars

----------------------------------------------------------------------------
(* load_table called from two threads on one loader.  The code takes no    *)
(* lock, so the calls interleave at every statement that does I/O: the     *)
(* steps below are the statements of load_table, _load_full_table and      *)
(* _load_and_convert_to_parquet between which the other thread can run.    *)
(* df.to_parquet(parquet_path) opens the target path for writing (the file *)
(* exists from then on, truncated) and the file is a complete Parquet file *)
(* only when the call returns.  parquet holds the complete artifacts,      *)
(* writers the to_parquet calls that have opened the file and not returned.*)

\* parquet_path.exists()
ArtifactPathExists(stem) ==
    HasKey(parquet, stem) \/ \E w \in writers : w.stem = stem

\* the file at the artifact path is being written
ArtifactPartial(stem) == \E w \in writers : w.stem = stem

\* an exception leaves load_table (preload_task swallows it, line 426)
Raises(c) ==
    /\ pc' = [pc EXCEPT ![c] = "idle"]
    /\ last_load' = [kind |-> "raise", args |-> frame[c].args, key |-> frame[c].cache_key]
    /\ frame' = [frame EXCEPT ![c] = NoFrame]

\* lines 135-151 of load_table: the cache lookup, the profile lookup and the
\* choice between sample and full load
BeginLoad(c, table_name, use_cache, sample_only, sample_size, columns, filters) ==
    /\ pc[c] = "idle"
    /\ loads < MaxLoads
    /\ loads' = loads + 1
    /\ LET cache_key == GenerateCacheKey(table_name, sample_only, sample_size,
                                         columns, filters)
           args == [table_name |-> table_name, use_cache |-> use_cache,
                    sample_only |-> sample_only, sample_size |-> sample_size,
                    columns |-> columns, filters |-> filters]
       IN IF use_cache /\ HasKey(data_cache, cache_key)
          THEN LET ret == ReturnCachedCopy(heap, Lookup(data_cache, cache_key))
               IN /\ load_stats' = [load_stats EXCEPT !.cache_hits = @ + 1]
                  /\ heap' = ret.heap
                  /\ held' = held \cup {ret.ref}
                  /\ last_load' = [kind |-> "hit", args |-> args, key |-> cache_key,
                                   df |-> ret.heap[ret.ref]]
                  /\ UNCHANGED <<pc, frame>>
          ELSE /\ load_stats' = [load_stats EXCEPT !.cache_misses = @ + 1]
               /\ IF ~HasKey(file_info, table_name)
                     \/ "error" \in DOMAIN Lookup(file_info, table_name)
                  THEN /\ last_load' = [kind |-> "raise", args |-> args, key |-> cache_key]
                       /\ UNCHANGED <<pc, frame>>
                  ELSE LET info == Lookup(file_info, table_name)
                       IN /\ frame' = [frame EXCEPT ![c] =
                                         [cache_key |-> cache_key, args |-> args,
                                          stem |-> info.file_path,
                                          row_count |-> info.row_count]]
                          /\ pc' = [pc EXCEPT ![c] =
                                      IF sample_only
                                         \/ (info.row_count > LargeTableRows
                                             /\ sample_size # NoSampleSize)
                                      THEN "load_sample" ELSE "check_artifact"]
                          /\ UNCHANGED last_load
               /\ UNCHANGED <<heap, held>>
    /\ UNCHANGED <<parquet, schema_files, data_cache, loaded, writers, conversions,
                   minerVars, scanVars, helperVars>>

\* line 152: df = self._load_sample(...)
LoadSampleStep(c) ==
    /\ pc[c] = "load_sample"
    /\ LET args == frame[c].args
           got  == LoadSample(SourceTable(frame[c].stem),
                              IF args.sample_size # NoSampleSize
                              THEN args.sample_size ELSE DefaultSampleSize,
                              args.columns)
       IN IF got.raised
          THEN Raises(c)
          ELSE /\ frame' = [frame EXCEPT ![c] =
                              [cache_key |-> @.cache_key, args |-> @.args,
                               stem |-> @.stem, row_count |-> @.row_count,
                               df |-> got.df]]
               /\ pc' = [pc EXCEPT ![c] = "store"]
               /\ UNCHANGED last_load
    /\ UNCHANGED <<parquet, schema_files, heap, data_cache, load_stats, held, loaded,
                   loads, writers, conversions, minerVars, scanVars, helperVars>>

\* lines 226-233 of _load_full_table: parquet_path.exists() decides between
\* _load_parquet and _load_and_convert_to_parquet
CheckArtifact(c) ==
    /\ pc[c] = "check_artifact"
    /\ IF ArtifactPathExists(frame[c].stem)
       THEN /\ pc' = [pc EXCEPT ![c] = "read_parquet"]
            /\ UNCHANGED conversions
       ELSE /\ pc' = [pc EXCEPT ![c] = "read_csv"]
            /\ conversions' = DictSet(conversions, frame[c].stem,
                                      IF HasKey(conversions, frame[c].stem)
                                      THEN Lookup(conversions, frame[c].stem) + 1
                                      ELSE 1)
    /\ UNCHANGED <<parquet, schema_files, heap, data_cache, load_stats, held, loaded,
                   last_load, loads, frame, writers, minerVars, scanVars, helperVars>>

\* lines 271-276 of _load_parquet; pd.read_parquet raises on a file that is
\* not a complete Parquet file
ReadParquetStep(c) ==
    /\ pc[c] = "read_parquet"
    /\ IF ArtifactPartial(frame[c].stem) \/ ~HasKey(parquet, frame[c].stem)
       THEN Raises(c)
       ELSE LET got == LoadParquet(Lookup(parquet, frame[c].stem),
                                   frame[c].args.columns, frame[c].args.filters)
            IN IF got.raised
               THEN Raises(c)
               ELSE /\ frame' = [frame EXCEPT ![c] =
                                   [cache_key |-> @.cache_key, args |-> @.args,
                                    stem |-> @.stem, row_count |-> @.row_count,
                                    df |-> got.df]]
                    /\ pc' = [pc EXCEPT ![c] = "store"]
                    /\ UNCHANGED last_load
    /\ UNCHANGED <<parquet, schema_files, heap, data_cache, load_stats, held, loaded,
                   loads, writers, conversions, minerVars, scanVars, helperVars>>

\* lines 242-254 of _load_and_convert_to_parquet: read the CSV in chunks
ReadCsvStep(c) ==
    /\ pc[c] = "read_csv"
    /\ LET got == ConvertedFrame(SourceTable(frame[c].stem),
                                 frame[c].args.columns, frame[c].args.filters)
       IN IF got.raised
          THEN Raises(c)
          ELSE /\ frame' = [frame EXCEPT ![c] =
                              [cache_key |-> @.cache_key, args |-> @.args,
                               stem |-> @.stem, row_count |-> @.row_count,
                               df |-> got.df]]
               /\ pc' = [pc EXCEPT ![c] = "to_parquet"]
               /\ UNCHANGED last_load
    /\ UNCHANGED <<parquet, schema_files, heap, data_cache, load_stats, held, loaded,
                   loads, writers, conversions, minerVars, scanVars, helperVars>>

\* line 258, first part: df.to_parquet(parquet_path) opens parquet_path for
\* writing, which creates the file or truncates the one that is there
ToParquetOpens(c) ==
    /\ pc[c] = "to_parquet"
    /\ writers' = writers \cup {[stem |-> frame[c].stem, caller |-> c]}
    /\ parquet' = DictRemove(parquet, frame[c].stem)
    /\ pc' = [pc EXCEPT ![c] = "writing"]
    /\ UNCHANGED <<schema_files, heap, data_cache, load_stats, held, loaded,
                   last_load, loads, frame, conversions, minerVars, scanVars, helperVars>>

\* line 258, second part: to_parquet has written the footer and returns.  The
\* file is a complete artifact unless another to_parquet still has it open
\* (two writers of one table write the same frame here, so the bytes are the
\* same whichever of them wrote them)
ToParquetReturns(c) ==
    /\ pc[c] = "writing"
    /\ writers' = writers \ {[stem |-> frame[c].stem, caller |-> c]}
    /\ parquet' = IF \E w \in writers : w.stem = frame[c].stem /\ w.caller # c
                  THEN parquet
                  ELSE DictSet(parquet, frame[c].stem, frame[c].df)
    /\ pc' = [pc EXCEPT ![c] = "save_schema"]
    /\ UNCHANGED <<schema_files, heap, data_cache, load_stats, held, loaded,
                   last_load, loads, frame, conversions, minerVars, scanVars, helperVars>>

\* line 261: self._save_schema_metadata(csv_path, df)
SaveSchemaMetadata(c) ==
    /\ pc[c] = "save_schema"
    /\ schema_files' = schema_files \cup {frame[c].stem}
    /\ pc' = [pc EXCEPT ![c] = "store"]
    /\ UNCHANGED <<parquet, heap, data_cache, load_stats, held, loaded,
                   last_load, loads, frame, writers, conversions, minerVars, scanVars, helperVars>>

\* lines 157-171 of load_table: filter, store a copy in the cache, update the
\* statistics, return
StoreAndReturn(c) ==
    /\ pc[c] = "store"
    /\ LET args   == frame[c].args
           df     == IF args.filters # NoFilters
                     THEN ApplyFilters(frame[c].df, args.filters) ELSE frame[c].df
           df_ref == Len(heap) + 1
           heap1  == Append(heap, df)
           store  == StoreCopy(heap1, df_ref)
       IN /\ heap' = IF args.use_cache THEN store.heap ELSE heap1
          /\ data_cache' = IF args.use_cache
                           THEN DictSet(data_cache, frame[c].cache_key, store.ref)
                           ELSE data_cache
          /\ loaded' = IF args.use_cache
                       THEN DictSet(loaded, frame[c].cache_key, df)
                       ELSE loaded
          /\ load_stats' =
               [load_stats EXCEPT
                  !.loaded_tables =
                     DictSet(@, args.table_name,
                             [rows_loaded    |-> Len(df.rows),
                              columns_loaded |-> Len(df.columns)])]
          /\ held' = held \cup {df_ref}
          /\ last_load' = [kind |-> "miss", args |-> args,
                           key |-> frame[c].cache_key, df |-> df]
    /\ pc' = [pc EXCEPT ![c] = "idle"]
    /\ frame' = [frame EXCEPT ![c] = NoFrame]
    /\ UNCHANGED <<parquet, schema_files, loads, writers, conversions,
                   minerVars, scanVars, helperVars>>

\* the calls of the two threads: full loads, and the call of preload_task
\* (line 424), on the table with data and the table in error state
ConcurrentTableArgs  == {n_Pedido, n_Venda}
ConcurrentSampleArgs == { [sample_only |-> FALSE, sample_size |-> NoSampleSize],
                          [sample_only |-> TRUE,  sample_size |-> DefaultSampleSize] }

NextConcurrent ==
    \E c \in Callers :
       \/ \E table_name \in ConcurrentTableArgs, sample \in ConcurrentSampleArgs :
            BeginLoad(c, table_name, TRUE, sample.sample_only, sample.sample_size,
                      NoColumns, NoFilters)
       \/ LoadSampleStep(c)
       \/ CheckArtifact(c)
       \/ ReadParquetStep(c)
       \/ ReadCsvStep(c)
       \/ ToParquetOpens(c)
       \/ ToParquetReturns(c)
       \/ SaveSchemaMetadata(c)
       \/ StoreAndReturn(c)

SpecConcurrent == InitLoader /\ [][NextConcurrent]_vars

----------------------------------------------------------------------------
(* Claims about load_table.                                                *)

\* the set of the column names of a frame
ColumnSet(df) == { df.columns[i] : i \in 1..Len(df.columns) }

\* the last call was a full load without projection and without filters
\* that returned a frame
LastLoadWasPlainFull ==
    /\ last_load.kind \in {"miss", "hit"}
    /\ ~last_load.args.sample_only
    /\ last_load.args.sample_size = NoSampleSize
    /\ last_load.args.columns = NoColumns
    /\ last_load.args.filters = NoFilters

\* C9 (as claimed): the persisted artifact holds the full table, so a full
\* load without projection and without filter returns the row count and the
\* column set of the source table, whatever the earlier calls were
C9_ArtifactHoldsFullTable ==
    LastLoadWasPlainFull =>
        /\ Len(last_load.df.rows) = Len(SourceTable(last_load.args.table_name).rows)
        /\ ColumnSet(last_load.df) = ColumnSet(SourceTable(last_load.args.table_name))

\* C10: whatever callers do to the frames returned to them, every entry of
\* the in-memory cache still holds the data loaded for its key, and a hit
\* returns that data
C10_CacheIsolatedFromCallers ==
    /\ \A i \in 1..Len(data_cache) :
          heap[data_cache[i].info] = Lookup(loaded, data_cache[i].name)
    /\ last_load.kind = "hit" => last_load.df = Lookup(loaded, last_load.key)

\* C10 witness: a caller changed the frame a miss returned to it, and a later
\* call with the same arguments was answered from the cache
C10_Witness ==
    /\ last_load.kind = "hit"
    /\ \E ref \in held :
          /\ \E c \in 1..Len(heap[ref].columns) : heap[ref].columns[c] = "x"
          /\ [columns |-> SubSeq(heap[ref].columns, 1, Len(heap[ref].columns) - 1),
              rows    |-> ProjectRows(heap[ref].rows,
                                      SubSeq(heap[ref].columns, 1,
                                             Len(heap[ref].columns) - 1))]
             = last_load.df

\* the cache keys load_table builds for a table, over the modelled arguments
KeysOfTable(table_name) ==
    { GenerateCacheKey(table_name, sample.sample_only, sample.sample_size,
                       columns, filters) :
        sample \in SampleArgs, columns \in ColumnArgs, filters \in FilterArgs }

\* C11 (as claimed): clear_cache(table_name = t) removes exactly the entries
\* of table t and leaves the entries of every other table as they were, also
\* when the name of another table begins with t; clear_cache() empties the
\* cache
C11_ClearCacheScoped ==
    [][\A t \in CacheTableArgs \cup {NoTable} :
          ClearCache(t) =>
             data_cache' = IF t = NoTable THEN <<>>
                           ELSE SelectSeq(data_cache, LAMBDA entry :
                                   entry.name \notin KeysOfTable(t))]_vars

\* C12 (as claimed): the conversion to the columnar artifact runs at most
\* once per table, however the full loads of two callers interleave
C12_AtMostOneConversion ==
    \A i \in 1..Len(conversions) : conversions[i].info <= 1

\* C13 (as claimed): a load that checks for the artifact never finds the
\* path present while the file is only partially written
C13_ArtifactWriteAtomic ==
    [][\A c \in Callers :
          (CheckArtifact(c) /\ pc'[c] = "read_parquet")
             => ~ArtifactPartial(frame[c].stem)]_vars

\* the table has no usable profile in the current profile set
NotInProfileSet(table_name) ==
    \/ ~HasKey(file_info, table_name)
    \/ "error" \in DOMAIN Lookup(file_info, table_name)

\* C14 (as claimed): a load_table call for a table that is absent from the
\* current profile set, or whose profile is in error state, raises instead
\* of returning data, and leaves the data cache and the loaded_tables
\* statistics as they were
C14_MissingTableRaises ==
    [][(loads' # loads /\ NotInProfileSet(last_load'.args.table_name))
          => /\ last_load'.kind = "raise"
             /\ data_cache' = data_cache
             /\ load_stats'.loaded_tables = load_stats.loaded_tables]_vars

\* some relationship of the generator runs from source to target with a
\* confidence at or above the floor
RelationshipAtFloor(source, target) ==
    \E i \in 1..Len(diagram.relationships) :
       /\ diagram.relationships[i].source_table = source
       /\ diagram.relationships[i].target_table = target
       /\ diagram.relationships[i].confidence >= diagram.min_confidence

\* C15: the nodes of the graph build_graph makes are exactly the tables of
\* the table profiles, isolated ones included, and there is an edge from
\* source to target exactly when some relationship from source to target
\* has a confidence of at least min_confidence
C15_GraphNodesAndEdges ==
    diagram.built =>
       LET names == TableNames(diagram.tables_info)
           edges == diagram.graph.edges
       IN /\ { n.name : n \in diagram.graph.nodes } = names
          /\ \A e \in edges : e.source \in names /\ e.target \in names
          /\ \A source \in names, target \in names :
                (\E e \in edges : e.source = source /\ e.target = target)
                   <=> RelationshipAtFloor(source, target)

\* C15 witness: a graph with an edge, with a relationship left out for being
\* below the floor, with a relationship exactly at the floor, and with a
\* table that no edge touches
C15_Witness ==
    /\ diagram.built
    /\ diagram.graph.edges # {}
    /\ \E i \in 1..Len(diagram.relationships) :
          diagram.relationships[i].confidence < diagram.min_confidence
    /\ \E i \in 1..Len(diagram.relationships) :
          diagram.relationships[i].confidence = diagram.min_confidence
    /\ \E n \in diagram.graph.nodes :
          \A e \in diagram.graph.edges : e.source # n.name /\ e.target # n.name

\* some relationship held at the last suggest_joins call runs from source
\* to target
JoinRelationship(source, target) ==
    \E i \in 1..Len(last_join.relationships) :
       /\ last_join.relationships[i].source_table = source
       /\ last_join.relationships[i].target_table = target

\* C16 (as claimed): with relationships ItemPedido -> Pedido and Pedido ->
\* Cliente, none between Cliente and ItemPedido, and the graph built from
\* them, suggest_joins("Cliente", "ItemPedido") returns exactly one
\* suggestion, indirect, with the path ItemPedido -> Pedido -> Cliente
C16_IndirectJoinScenario ==
    (/\ last_join.called
     /\ last_join.table1 = n_Cliente
     /\ last_join.table2 = n_ItemPedido
     /\ JoinRelationship(n_ItemPedido, n_Pedido)
     /\ JoinRelationship(n_Pedido, n_Cliente)
     /\ ~JoinRelationship(n_Cliente, n_ItemPedido)
     /\ ~JoinRelationship(n_ItemPedido, n_Cliente)
     /\ last_join.graph = BuildGraph(last_join.relationships))
    => /\ Len(last_join.suggestions) = 1
       /\ last_join.suggestions[1].type = "indirect"
       /\ last_join.suggestions[1].path = <<n_ItemPedido, n_Pedido, n_Cliente>>

\* C17: when a relationship exists between the two tables in either
\* direction, suggest_joins returns direct suggestions only, one per such
\* relationship, in descending order of confidence; it returns indirect
\* suggestions only when there is no such relationship; and the confidence of
\* an indirect suggestion is below the confidence of every relationship that
\* mining returned
C17_DirectBeforeIndirect ==
    last_join.called =>
       LET sug    == last_join.suggestions
           direct == \/ JoinRelationship(last_join.table1, last_join.table2)
                     \/ JoinRelationship(last_join.table2, last_join.table1)
       IN /\ direct =>
                /\ Len(sug) > 0
                /\ \A k \in 1..Len(sug) : sug[k].type = "direct"
                /\ \A k \in 1..(Len(sug) - 1) : sug[k].confidence >= sug[k + 1].confidence
                /\ Len(sug) = Cardinality({ i \in 1..Len(last_join.relationships) :
                       LET rel == last_join.relationships[i]
                       IN \/ rel.source_table = last_join.table1
                             /\ rel.target_table = last_join.table2
                          \/ rel.source_table = last_join.table2
                             /\ rel.target_table = last_join.table1 })
          /\ ~direct => \A k \in 1..Len(sug) : sug[k].type = "indirect"
          /\ \A k \in 1..Len(sug) :
                sug[k].type = "indirect" =>
                   \A r \in 1..Len(results) : \A i \in 1..Len(results[r]) :
                      sug[k].confidence < results[r][i].confidence

\* C17 witness: two direct suggestions were returned, the one of the later
\* relationship first because its confidence is the higher
C17_Witness ==
    /\ last_join.called
    /\ Len(last_join.suggestions) = 2
    /\ last_join.suggestions[1].type = "direct"
    /\ last_join.suggestions[1].confidence > last_join.suggestions[2].confidence
    /\ \E i, j \in 1..Len(last_join.relationships) :
          /\ i < j
          /\ last_join.relationships[j].source_table = last_join.suggestions[1].direction[1]
          /\ last_join.relationships[j].target_table = last_join.suggestions[1].direction[2]
          /\ last_join.relationships[i].source_table = last_join.suggestions[2].direction[1]
          /\ last_join.relationships[i].target_table = last_join.suggestions[2].direction[2]

\* the table names of the files a scan listed
ListedTables == { last_scan.files[i].stem : i \in 1..Len(last_scan.files) }

\* C18 (as claimed): a scan replaces the whole profile set: after a scan the
\* profile set held by the scanner (the loader's file_info, the analyzer's
\* tables_info) has exactly the tables that were in the directory at that
\* scan, whatever files were added or removed since the scan before
C18_ScanReplacesProfileSet ==
    /\ last_scan.kind = "loader"
          => { file_info[i].name : i \in 1..Len(file_info) } = ListedTables
    /\ last_scan.kind = "analyzer"
          => { analyzer_tables[i].name : i \in 1..Len(analyzer_tables) } = ListedTables

\* two tables of the profile set are distinct, free of errors and small
\* (50 rows), and have a column of the same name that contains "id"
SmallTablesShareIdColumn(a, b) ==
    /\ a # b
    /\ "error" \notin DOMAIN tables_info[a].info
    /\ "error" \notin DOMAIN tables_info[b].info
    /\ tables_info[a].info.total_rows <= 50
    /\ tables_info[b].info.total_rows <= 50
    /\ \E ca \in 1..Len(Columns(tables_info[a].info)),
          cb \in 1..Len(Columns(tables_info[b].info)) :
          /\ Lower(Columns(tables_info[a].info)[ca]) = Lower(Columns(tables_info[b].info)[cb])
          /\ Contains(w_id, Lower(Columns(tables_info[a].info)[ca]))

\* C19 (as claimed): for every two such tables between which the naming and
\* the ERP detector propose nothing, the list mine_relationships returns has
\* a data_pattern relationship between the two
C19_DataDetectorContributes ==
    LET cands == Candidates
    IN \A r \in 1..Len(results) :
         \A a, b \in 1..Len(tables_info) :
            (/\ SmallTablesShareIdColumn(a, b)
             /\ \A c \in 1..Len(cands) :
                   /\ PairOf(cands[c]) # <<tables_info[a].name, tables_info[b].name>>
                   /\ PairOf(cands[c]) # <<tables_info[b].name, tables_info[a].name>>)
            => \E i \in 1..Len(results[r]) :
                  /\ results[r][i].relationship_type = "data_pattern"
                  /\ {results[r][i].source_table, results[r][i].target_table}
                       = {tables_info[a].name, tables_info[b].name}

\* C20: of the candidates that share a dedup key (the ordered pair of
\* tables) exactly one is in the list mine_relationships returns; it is the
\* one proposed first, the naming detector coming before the ERP detector;
\* and its confidence is the one computed from that candidate alone, after
\* the deduplication
C20_FirstSeenSurvives ==
    LET cands == Candidates
    IN \A r \in 1..Len(results) :
         LET res == results[r]
         IN \A c \in 1..Len(cands) :
              LET first     == cands[FirstOfPair(cands, c)]
                  survivors == { i \in 1..Len(res) : PairOf(res[i]) = PairOf(cands[c]) }
              IN /\ Cardinality(survivors) = 1
                 /\ \A i \in survivors :
                       /\ DOMAIN res[i] = DOMAIN first \cup {"confidence"}
                       /\ \A k \in DOMAIN first \ {"confidence"} : res[i][k] = first[k]
                       /\ res[i].confidence = CalculateConfidence(tables_info, first)

\* C20 witness: mining returned the naming candidate of a pair of tables for
\* which the ERP detector proposed a candidate too, and the confidence of the
\* dropped ERP candidate would have been another
C20_Witness ==
    /\ Len(results) > 0
    /\ LET cands == Candidates
       IN \E c, d \in 1..Len(cands) :
            /\ c < d
            /\ PairOf(cands[c]) = PairOf(cands[d])
            /\ cands[c].relationship_type = "foreign_key_by_name"
            /\ cands[d].relationship_type = "erp_pattern"
            /\ \E i \in 1..Len(results[1]) :
                  /\ PairOf(results[1][i]) = PairOf(cands[c])
                  /\ results[1][i].relationship_type = "foreign_key_by_name"
                  /\ results[1][i].confidence
                       # CalculateConfidence(tables_info, cands[d])

\* the candidate a returned relationship was made from: the first candidate
\* proposed for its ordered pair of tables
CandidateOf(cands, rel) ==
    cands[CHOOSE k \in 1..Len(cands) :
            /\ PairOf(cands[k]) = PairOf(rel)
            /\ \A m \in 1..(k - 1) : PairOf(cands[m]) # PairOf(rel)]

\* C21 (as claimed): the final confidence of every returned erp_pattern
\* relationship starts from the base confidence of the rule that produced it
\* (0.9 for cliente/pedido, 0.8 for cliente/notafiscal), not from a constant
\* shared by all erp_pattern relationships; the bonuses of
\* _calculate_confidence are added to that base and the sum is clamped to 1.0
C21_ErpBaseIsRuleBase ==
    LET cands == Candidates
    IN \A r \in 1..Len(results) :
         \A i \in 1..Len(results[r]) :
            LET rel     == results[r][i]
                cand    == CandidateOf(cands, rel)
                bonuses == CalculateConfidence(tables_info, cand)
                             - EvidenceWeight("erp_pattern")
            IN rel.relationship_type = "erp_pattern"
               => rel.confidence = Min(100, cand.confidence + bonuses)

\* the master-table keywords the scoring rule names
ScoringMasterKeywords == <<w_cliente, w_produto, w_fornecedor, w_funcionario>>

\* C22 (as claimed): the final confidence of every returned relationship is
\* min(1, base + 0.1 if the relationship column contains an ID/code affix
\* + 0.1 if it starts with one + 0.1 if the target table name matches one of
\* cliente, produto, fornecedor, funcionario), the base being the weight of
\* the relationship type and the column the one _calculate_confidence reads
C22_BonusAmounts ==
    \A rel \in Returned :
       LET column == Lower(Get(rel, "relationship_column", <<>>))
           target == Lower(rel.target_table)
           base   == EvidenceWeight(rel.relationship_type)
       IN rel.confidence =
            Min(100,
                base
                + (IF \E p \in 1..Len(ColumnBonusPatterns) :
                        Contains(ColumnBonusPatterns[p], column)
                   THEN 10 ELSE 0)
                + (IF \E p \in 1..Len(ColumnBonusPatterns) :
                        StartsWith(column, ColumnBonusPatterns[p])
                   THEN 10 ELSE 0)
                + (IF \E k \in 1..Len(ScoringMasterKeywords) :
                        Contains(ScoringMasterKeywords[k], target)
                   THEN 10 ELSE 0))

\* C23 (as claimed): the graph is recomputed whenever mining is invoked:
\* after any sequence of mine_relationships, build_relationship_graph and
\* suggest_joins calls, the graph suggest_joins consults for indirect paths
\* is the one derived from the relationships the miner holds at that call,
\* never the graph of an earlier state and never an empty graph when
\* relationships above the edge threshold exist
C23_GraphFollowsMining ==
    last_join.called =>
       /\ last_join.graph.edges = GraphEdges(last_join.relationships)
       /\ last_join.graph.order = EdgeOrder(last_join.relationships)

\* C24 (as claimed): _load_sample with sample size n returns at most n rows,
\* and exactly n rows whenever the file has at least n data rows, on the
\* small-sample path and on the chunked large-sample path alike
C24_SampleHasExactlyN ==
    (sample_call.called /\ ~sample_call.result.raised) =>
       /\ sample_call.result.rows <= sample_call.sample_size
       /\ sample_call.total_rows >= sample_call.sample_size
            => sample_call.result.rows = sample_call.sample_size

\* C25: with use_cache=True, a load_table call that follows a call with the
\* same table, mode, sample size, columns and filters which returned a table
\* (callers may have changed the frames they hold in between) is answered
\* from the in-memory cache, returns a table equal to the one the first call
\* returned, and leaves the artifacts and the schema files on disk as they
\* were
C25_RepeatedLoadServedFromCache ==
    [][(/\ loads' # loads
        /\ last_load.kind \in {"miss", "hit"}
        /\ last_load.args.use_cache
        /\ last_load'.args = last_load.args)
       => /\ last_load'.kind = "hit"
          /\ last_load'.df = last_load.df
          /\ load_stats'.cache_hits = load_stats.cache_hits + 1
          /\ load_stats'.cache_misses = load_stats.cache_misses
          /\ parquet' = parquet
          /\ schema_files' = schema_files]_vars

\* C25 witness: a sample load with fixed n was repeated and answered from the
\* cache, after the caller had changed the frame of the first call, and no
\* artifact exists on disk
C25_Witness ==
    /\ loads = 2
    /\ last_load.kind = "hit"
    /\ last_load.args.sample_only
    /\ last_load.args.sample_size = 1
    /\ Len(last_load.df.rows) = 1
    /\ load_stats.cache_hits = 1
    /\ \E ref \in held : \E c \in 1..Len(heap[ref].columns) : heap[ref].columns[c] = "x"
    /\ parquet = <<>>

SemanticTags ==
    {"id", "date", "currency", "quantity", "boolean", "categorical", "numeric", "text"}

\* the decision procedure the claim gives: a name pattern wins in the order
\* id, date, currency, quantity; otherwise at most 3 distinct non-null values
\* all in the boolean vocabulary give boolean, fewer than 20 distinct values
\* give categorical, at least 70% of the non-null values parsing as numbers
\* give numeric, anything else gives text
ReferenceSemanticType(column_name, sample_data) ==
    LET col_name_lower == Lower(column_name)
        unique_vals    == UniqueVals(sample_data)
    IN IF AnyPatternIn(IdPatterns, col_name_lower) THEN "id"
       ELSE IF AnyPatternIn(DatePatterns, col_name_lower) THEN "date"
       ELSE IF AnyPatternIn(MoneyPatterns, col_name_lower) THEN "currency"
       ELSE IF AnyPatternIn(QtyPatterns, col_name_lower) THEN "quantity"
       ELSE IF /\ Cardinality(unique_vals) <= 3
               /\ { Lower(v.str) : v \in unique_vals } \subseteq BooleanVocabulary
       THEN "boolean"
       ELSE IF Cardinality(unique_vals) < 20 THEN "categorical"
       ELSE IF NumericShareOfNonNull(sample_data) THEN "numeric"
       ELSE "text"

\* C26 (as claimed): on a non-empty sample detect_column_semantic_type
\* returns one of the eight tags, the one the decision procedure above gives
C26_AgreesWithReference ==
    (type_call.called /\ Len(type_call.sample_data) > 0) =>
       /\ type_call.result \in SemanticTags
       /\ type_call.result
            = ReferenceSemanticType(type_call.column_name, type_call.sample_data)

\* C27: every load_table call, whether it returns or raises, whoever makes
\* it, adds one to cache_hits if it is answered from the in-memory cache
\* (use_cache is true and the key is in the cache) and one to cache_misses
\* otherwise, so that cache_hits + cache_misses is the number of calls made;
\* and a call with use_cache=False is not answered from the cache and leaves
\* the cache and the frames it holds as they were
C27_HitsAndMissesCountCalls ==
    [][loads' # loads =>
         LET args       == last_load'.args
             from_cache == args.use_cache /\ HasKey(data_cache, last_load'.key)
         IN /\ loads' = loads + 1
            /\ (last_load'.kind = "hit") = from_cache
            /\ load_stats'.cache_hits
                 = load_stats.cache_hits + (IF from_cache THEN 1 ELSE 0)
            /\ load_stats'.cache_misses
                 = load_stats.cache_misses + (IF from_cache THEN 0 ELSE 1)
            /\ load_stats'.cache_hits + load_stats'.cache_misses = loads'
            /\ ~args.use_cache =>
                  /\ data_cache' = data_cache
                  /\ \A i \in 1..Len(data_cache) :
                        heap'[data_cache[i].info] = heap[data_cache[i].info]]_vars

\* C27 witness: a call of get_table_schema loaded a sample and wrote the
\* schema file, and a later call with use_cache=False raised; both were
\* counted as misses
C27_Witness ==
    /\ loads = 2
    /\ last_load.kind = "raise"
    /\ ~last_load.args.use_cache
    /\ load_stats = [cache_hits |-> 0, cache_misses |-> 2,
                     loaded_tables |-> load_stats.loaded_tables]
    /\ n_Pedido \in schema_files
    /\ HasKey(data_cache, GenerateCacheKey(n_Pedido, TRUE, SchemaSampleSize,
                                           NoColumns, NoFilters))

\* C28 (as claimed): every relationship mine_relationships returns carries a
\* relationship_column that is one of the columns of its source_table, and
\* its source_table and target_table are names of the profile set
C28_ColumnOfSourceTable ==
    \A rel \in Returned :
       /\ rel.source_table \in TableNames(tables_info)
       /\ rel.target_table \in TableNames(tables_info)
       /\ "relationship_column" \in DOMAIN rel
       /\ \E c \in 1..Len(Columns(InfoOf(tables_info, rel.source_table))) :
             Columns(InfoOf(tables_info, rel.source_table))[c] = rel.relationship_column

\* C29 (as claimed): after any sequence of scan_data_directory calls on one
\* loader, stats['total_files'] is the number of files of the most recent
\* scan and stats['total_records'] is the sum of row_count over its profiles
\* that are not in error state
C29_TotalsOfLastScan ==
    (last_scan.kind = "loader" /\ ~last_scan.aborted) =>
       /\ scan_stats.total_files = Len(last_scan.files)
       /\ scan_stats.total_records = SumRowCounts(file_info)

\* the record lines of a file: its lines after the header line
RecordLines(content) == Max(CountLines(SkipBom(content)) - 1, 0)

\* C30 (as claimed): for every file the scans read, the wc path of
\* _count_csv_rows_fast, its fallback path and ERPSchemaAnalyzer.count_rows
\* return the same value, the number of record lines after the header, also
\* when the last record has no trailing newline and when the file is empty
C30_CountingPathsAgree ==
    scans > 0 =>
       \A i \in 1..Len(directory) :
          directory[i].readable =>
             LET content == directory[i].content
             IN /\ CountWithWc(content) = RecordLines(content)
                /\ CountFallback(content) = RecordLines(content)
                /\ CountRows(directory[i], FALSE) = RecordLines(content)

====
